---- MODULE Spec2Model ----
(***************************************************************************)
(* Towers of Hanoi evaluation harness (grankko/hanoi-redemption).          *)
(*                                                                         *)
(* The module models the puzzle state machine (game/towers_of_hanoi.py),   *)
(* the optimal solver (game/optimal_solver.py), the loop of                *)
(* demo_optimal.py that replays the solver's output on a fresh game, and   *)
(* the evaluation run of testing/test_runner.py and main.py with its       *)
(* result classification (testing/results_manager.py).                     *)
(*                                                                         *)
(* A Python list is a TLA+ sequence: list index 0 is sequence index 1, so  *)
(* the top disk of a tower is Head(tower), list.pop(0) is Tail and         *)
(* list.insert(0, d) is <<d>> \o tower.                                    *)
(***************************************************************************)
EXTENDS Integers, Sequences, FiniteSets, TLC

VARIABLES
    num_disks,      \* TowersOfHanoi.num_disks
    state,          \* TowersOfHanoi.state: tower_a, tower_b, tower_c
    call,           \* the last method called on the game, with its move
    ret,            \* what that call returned
    pre,            \* TowersOfHanoi.state as it was when that call began
    applied,        \* number of make_move calls that returned True since reset
    pc,             \* position of the driver (demo_optimal_solution)
    optimal_moves,  \* demo_optimal_solution: optimal_moves = solver.solve()
    i,              \* demo_optimal_solution: number of loop iterations done
    driver,         \* which run_test runs: main.py's or testing/test_runner.py's
    auto_mode,      \* run_test(auto_mode)
    move_count,     \* HanoiAITester.move_count
    test_results,   \* HanoiAITester.test_results
    recent_moves,   \* HanoiAITester.recent_moves
    recent_states,  \* HanoiAITester.recent_states
    recent_reasoning, \* HanoiAITester.recent_reasoning (testing/ai_tester.py)
    ai_move_result, \* run_test: what get_ai_move returned in the last turn
    requests,       \* number of get_ai_move calls made in the run
    halt,           \* the way the run left its loop
    results,        \* the dictionary run_test returns
    mock,           \* the MockAIClient injected as the tester's ai_client
    moves,          \* OptimalSolver.moves of a solver called directly
    seen,           \* the texts the description methods returned last
    prompt,         \* the text get_ai_move has built for the move source last
    argv,           \* the command line main() was started with
    twin            \* a TestRunner given the answers of main's move source

\* The variables of an evaluation run and of a solver called directly.
runVars == <<driver, auto_mode, move_count, test_results, recent_moves,
             recent_states, recent_reasoning, ai_move_result, requests,
             halt, results, mock, moves, prompt, argv, twin>>

vars == <<num_disks, state, call, ret, pre, applied, pc, optimal_moves, i,
          driver, auto_mode, move_count, test_results, recent_moves,
          recent_states, recent_reasoning, ai_move_result, requests, halt,
          results, mock, moves, seen, prompt, argv, twin>>

---------------------------------------------------------------------------
(* Bounds of the model. *)

\* Largest disk count of a game driven through its methods in any order.
MaxDisks == 4

\* Largest disk count of a game replayed from the solver's output.
MaxSolverDisks == 6

---------------------------------------------------------------------------
(* schemas/hanoi_move.py, schemas/game_state.py *)

\* Literal["A", "B", "C"]
Towers == {"A", "B", "C"}

\* HanoiMove: any pair of tower names, source = destination included.
HanoiMove == [source_tower : Towers, destination_tower : Towers]

\* The move field of a call that takes no move (__init__, reset).
NoMove == [source_tower |-> "-", destination_tower |-> "-"]

\* HanoiGameState.get_tower
get_tower(st, tower_name) ==
    CASE tower_name = "A" -> st.tower_a
      [] tower_name = "B" -> st.tower_b
      [] tower_name = "C" -> st.tower_c

\* The in-place mutation of the list get_tower returned: the game state
\* with that tower's list now holding disks.
with_tower(st, tower_name, disks) ==
    CASE tower_name = "A" -> [st EXCEPT !.tower_a = disks]
      [] tower_name = "B" -> [st EXCEPT !.tower_b = disks]
      [] tower_name = "C" -> [st EXCEPT !.tower_c = disks]

---------------------------------------------------------------------------
(* game/towers_of_hanoi.py *)

\* list(range(1, n + 1))
range1(n) == [k \in 1..n |-> k]

\* Faulty variant: the disks stacked largest on top.
reset_descending(n) ==
    [tower_a |-> [k \in 1..n |-> n + 1 - k], tower_b |-> <<>>,
     tower_c |-> <<>>]

\* TowersOfHanoi.reset: the state it leaves behind.
reset(n) == [tower_a |-> range1(n), tower_b |-> <<>>, tower_c |-> <<>>]

\* The reason strings of is_valid_move, as the pieces of their f-strings.
ReasonSameTower(t) == <<"Cannot move from tower ", t, " to itself">>
ReasonEmpty(t) == <<"Tower ", t, " is empty">>
ReasonSize(d, onto) ==
    <<"Cannot place disk ", ToString(d), " on top of disk ", ToString(onto)>>
ReasonNone == <<>>

\* Faulty variant: the size comparison reversed.
is_valid_move_flipped(st, move) ==
    LET source_tower == get_tower(st, move.source_tower)
        dest_tower == get_tower(st, move.destination_tower)
    IN  IF move.source_tower = move.destination_tower
        THEN [value |-> FALSE, reason |-> ReasonSameTower(move.source_tower)]
        ELSE IF source_tower = <<>>
        THEN [value |-> FALSE, reason |-> ReasonEmpty(move.source_tower)]
        ELSE IF dest_tower # <<>> /\ Head(source_tower) < Head(dest_tower)
        THEN [value |-> FALSE,
              reason |-> ReasonSize(Head(source_tower), Head(dest_tower))]
        ELSE [value |-> TRUE, reason |-> ReasonNone]

\* Faulty variant: the empty-source check made before the same-tower check.
is_valid_move_empty_first(st, move) ==
    LET source_tower == get_tower(st, move.source_tower)
        dest_tower == get_tower(st, move.destination_tower)
    IN  IF source_tower = <<>>
        THEN [value |-> FALSE, reason |-> ReasonEmpty(move.source_tower)]
        ELSE IF move.source_tower = move.destination_tower
        THEN [value |-> FALSE, reason |-> ReasonSameTower(move.source_tower)]
        ELSE IF dest_tower # <<>> /\ Head(source_tower) > Head(dest_tower)
        THEN [value |-> FALSE,
              reason |-> ReasonSize(Head(source_tower), Head(dest_tower))]
        ELSE [value |-> TRUE, reason |-> ReasonNone]

\* Faulty variant: the empty-source reason names the destination tower.
is_valid_move_names_dest(st, move) ==
    LET source_tower == get_tower(st, move.source_tower)
        dest_tower == get_tower(st, move.destination_tower)
    IN  IF move.source_tower = move.destination_tower
        THEN [value |-> FALSE, reason |-> ReasonSameTower(move.source_tower)]
        ELSE IF source_tower = <<>>
        THEN [value |-> FALSE, reason |-> ReasonEmpty(move.destination_tower)]
        ELSE IF dest_tower # <<>> /\ Head(source_tower) > Head(dest_tower)
        THEN [value |-> FALSE,
              reason |-> ReasonSize(Head(source_tower), Head(dest_tower))]
        ELSE [value |-> TRUE, reason |-> ReasonNone]

\* TowersOfHanoi.is_valid_move: the (is_valid, error_message) it returns.
is_valid_move(st, move) ==
    LET source_tower == get_tower(st, move.source_tower)
        dest_tower == get_tower(st, move.destination_tower)
    IN  IF move.source_tower = move.destination_tower
        THEN [value |-> FALSE, reason |-> ReasonSameTower(move.source_tower)]
        ELSE IF source_tower = <<>>
        THEN [value |-> FALSE, reason |-> ReasonEmpty(move.source_tower)]
        ELSE IF dest_tower # <<>> /\ Head(source_tower) > Head(dest_tower)
        THEN [value |-> FALSE,
              reason |-> ReasonSize(Head(source_tower), Head(dest_tower))]
        ELSE [value |-> TRUE, reason |-> ReasonNone]

\* Faulty variant: the top disk read with pop(0) instead of [0].
is_valid_move_state_pop(st, move) ==
    LET source_tower == get_tower(st, move.source_tower)
    IN  IF source_tower = <<>> THEN st
        ELSE with_tower(st, move.source_tower, Tail(source_tower))

\* TowersOfHanoi.is_valid_move: the game state it leaves behind. The method
\* reads the two lists and assigns nothing.
is_valid_move_state(st, move) == st

\* Faulty variant: the disk read with source_tower[0], never removed.
make_move_no_pop(st, move) ==
    LET v == is_valid_move(st, move)
    IN  IF ~v.value
        THEN [value |-> FALSE, state |-> st]
        ELSE LET disk == Head(get_tower(st, move.source_tower))
                 dest_tower == get_tower(st, move.destination_tower)
             IN  [value |-> TRUE,
                  state |-> with_tower(st, move.destination_tower,
                                       <<disk>> \o dest_tower)]

\* Faulty variant: the disk appended to the destination list (its bottom).
make_move_append(st, move) ==
    LET v == is_valid_move(st, move)
    IN  IF ~v.value
        THEN [value |-> FALSE, state |-> st]
        ELSE LET source_tower == get_tower(st, move.source_tower)
                 disk == Head(source_tower)
                 st1 == with_tower(st, move.source_tower, Tail(source_tower))
                 dest_tower == get_tower(st1, move.destination_tower)
             IN  [value |-> TRUE,
                  state |-> with_tower(st1, move.destination_tower,
                                       Append(dest_tower, disk))]

\* Faulty variant: no re-validation of the size rule before the move.
make_move_size_unchecked(st, move) ==
    LET source_tower == get_tower(st, move.source_tower)
    IN  IF move.source_tower = move.destination_tower \/ source_tower = <<>>
        THEN [value |-> FALSE, state |-> st]
        ELSE LET disk == Head(source_tower)
                 st1 == with_tower(st, move.source_tower, Tail(source_tower))
                 dest_tower == get_tower(st1, move.destination_tower)
             IN  [value |-> TRUE,
                  state |-> with_tower(st1, move.destination_tower,
                                       <<disk>> \o dest_tower)]

\* TowersOfHanoi.make_move: the bool it returns and the state it leaves.
make_move(st, move) ==
    LET v == is_valid_move(st, move)
    IN  IF ~v.value
        THEN [value |-> FALSE, state |-> st]
        ELSE LET source_tower == get_tower(st, move.source_tower)
                 disk == Head(source_tower)                      \* pop(0)
                 st1 == with_tower(st, move.source_tower, Tail(source_tower))
                 dest_tower == get_tower(st1, move.destination_tower)
             IN  [value |-> TRUE,
                  state |-> with_tower(st1, move.destination_tower,
                                       <<disk>> \o dest_tower)]  \* insert(0, disk)

\* Faulty variant: solved as soon as tower A is empty.
is_solved_a_empty(st, n) == Len(st.tower_a) = 0

\* TowersOfHanoi.is_solved
is_solved(st, n) ==
    /\ Len(st.tower_c) = n
    /\ Len(st.tower_a) = 0
    /\ Len(st.tower_b) = 0

---------------------------------------------------------------------------
(* game/optimal_solver.py, testing/test_runner.py *)

RECURSIVE hanoi_recursive_largest_first(_, _, _, _)
\* Faulty variant: the largest disk is moved before the smaller ones.
hanoi_recursive_largest_first(n, source, destination, auxiliary) ==
    IF n = 1
    THEN <<[source_tower |-> source, destination_tower |-> destination]>>
    ELSE <<[source_tower |-> source, destination_tower |-> destination]>>
         \o hanoi_recursive_largest_first(n - 1, source, auxiliary, destination)
         \o hanoi_recursive_largest_first(n - 1, auxiliary, destination, source)

RECURSIVE hanoi_recursive(_, _, _, _)
\* OptimalSolver._hanoi_recursive: the moves it appends to self.moves.
hanoi_recursive(n, source, destination, auxiliary) ==
    IF n = 1
    THEN <<[source_tower |-> source, destination_tower |-> destination]>>
    ELSE hanoi_recursive(n - 1, source, auxiliary, destination)
         \o <<[source_tower |-> source, destination_tower |-> destination]>>
         \o hanoi_recursive(n - 1, auxiliary, destination, source)

\* Faulty variant: the roles of destination and auxiliary exchanged in the call.
solve_to_b(n) == hanoi_recursive(n, "A", "B", "C")

\* Faulty variant: the recursion entered one disk short.
solve_short(n) ==
    IF n = 1 THEN <<>> ELSE hanoi_recursive(n - 1, "A", "C", "B")

\* OptimalSolver.solve: self.moves = [] and then the recursion from A to C.
solve(n) == hanoi_recursive(n, "A", "C", "B")

\* Faulty variant: self.moves is not emptied before the recursion appends.
solver_solve_accumulating(self_moves, n) ==
    self_moves \o hanoi_recursive(n, "A", "C", "B")

\* OptimalSolver.solve on a solver whose moves field holds self_moves: the
\* field is set to [] and the recursion appends to it; the field is returned.
solver_solve(self_moves, n) ==
    LET emptied == <<>>
    IN  emptied \o hanoi_recursive(n, "A", "C", "B")

\* OptimalSolver.get_next_optimal_move(move_number): the moves field after
\* the call, and the move returned or the IndexError raised.
get_next_optimal_move(self_moves, n, move_number) ==
    LET moves1 == IF self_moves = <<>> THEN solver_solve(self_moves, n)
                  ELSE self_moves
    IN  IF 0 <= move_number /\ move_number < Len(moves1)
        THEN [moves |-> moves1, kind |-> "value",
              value |-> moves1[move_number + 1]]
        ELSE [moves |-> moves1, kind |-> "IndexError", value |-> NoMove]

\* Faulty variant: only the source tower is compared.
is_optimal_move_source_only(self_moves, n, move, move_number) ==
    LET r == get_next_optimal_move(self_moves, n, move_number)
    IN  [moves |-> r.moves,
         value |-> r.kind = "value"
                   /\ move.source_tower = r.value.source_tower]

\* OptimalSolver.is_optimal_move(move, move_number): the moves field after
\* the call and the value returned; an IndexError of get_next_optimal_move
\* is caught and gives False.
is_optimal_move(self_moves, n, move, move_number) ==
    LET r == get_next_optimal_move(self_moves, n, move_number)
    IN  IF r.kind = "IndexError"
        THEN [moves |-> r.moves, value |-> FALSE]
        ELSE [moves |-> r.moves,
              value |-> /\ move.source_tower = r.value.source_tower
                        /\ move.destination_tower = r.value.destination_tower]

\* OptimalSolver.get_total_moves
get_total_moves(n) == 2 ^ n - 1

\* TestRunner.run_test: optimal_moves = (2 ** self.num_disks) - 1
runner_optimal_moves(n) == (2 ^ n) - 1

\* TestRunner.run_test: max_moves = optimal_moves * 2
runner_max_moves(n) == runner_optimal_moves(n) * 2

---------------------------------------------------------------------------
(* The values the variables of an evaluation run hold where no run exists. *)

\* get_ai_move has not been called: ai_move_result is not assigned yet.
NoResponse == [kind |-> "unset", move |-> NoMove, reasoning |-> ""]

\* run_test has not returned: no dictionary yet.
NoResults == [status |-> "none"]

\* str(tower) of a list of integers, in pieces: "[3, 2, 1]", "[]".
RECURSIVE py_join(_)
py_join(tower) ==
    IF tower = <<>> THEN <<>>
    ELSE IF Len(tower) = 1 THEN <<ToString(Head(tower))>>
    ELSE <<ToString(Head(tower)), ", ">> \o py_join(Tail(tower))

py_str(tower) == <<"[">> \o py_join(tower) \o <<"]">>

\* A description method that empties the towers it has described.
get_state_description_draining(st) ==
    [state |-> [tower_a |-> <<>>, tower_b |-> <<>>, tower_c |-> <<>>],
     text |-> <<"Tower A: ">> \o py_str(st.tower_a)
              \o <<"\nTower B: ">> \o py_str(st.tower_b)
              \o <<"\nTower C: ">> \o py_str(st.tower_c)]

\* TowersOfHanoi.get_state_description(): the towers it leaves and the text
\* it returns, in the pieces of its f-strings.
get_state_description(st) ==
    [state |-> st,
     text |-> <<"Tower A: ">> \o py_str(st.tower_a)
              \o <<"\nTower B: ">> \o py_str(st.tower_b)
              \o <<"\nTower C: ">> \o py_str(st.tower_c)]

\* {tower if tower else 'empty'}
py_str_or_empty(tower) == IF tower # <<>> THEN py_str(tower) ELSE <<"empty">>

\* TowersOfHanoi.get_state_for_ai(): the towers it leaves and the text it
\* returns.
get_state_for_ai(st, n) ==
    [state |-> st,
     text |-> <<"Current game state:\n", "Tower A (source): ">>
              \o py_str_or_empty(st.tower_a)
              \o <<"\nTower B (auxiliary): ">>
              \o py_str_or_empty(st.tower_b)
              \o <<"\nTower C (destination): ">>
              \o py_str_or_empty(st.tower_c)
              \o <<"\n\nRules:\n",
                   "- Only move one disk at a time\n",
                   "- Only move the top disk from a tower\n",
                   "- Never place a larger disk on top of a smaller disk\n",
                   "- Goal: Move all disks to tower C\n\n",
                   "Disk sizes: 1 (smallest) to ", ToString(n), " (largest)">>]

DescriptionMethods == {"get_state_description", "get_state_for_ai"}

\* Neither description method has returned a text yet. since_move holds the
\* texts returned after the last successful make_move, since_reset those
\* returned after the last successful make_move or reset.
\* between holds the other methods called since the oldest of these texts,
\* repeated tells that the last call had a text of since_reset to repeat.
NoTexts == [m \in DescriptionMethods |-> <<>>]

NoSeen ==
    [since_move |-> NoTexts, since_reset |-> NoTexts, between |-> {},
     repeated |-> FALSE]

\* No MockAIClient: the tester's client is some other move source.
NoMock ==
    [mode |-> "none", invalid_at_turn |-> 0, turn_count |-> 0,
     optimal_moves |-> <<>>, inefficient_moves |-> <<>>]

\* main() was not started: the classes are used directly.
NoArgv == [given |-> FALSE, num_disks |-> <<>>, auto |-> FALSE]

\* No second run is followed.
NoTwin == [pc |-> "none"]

\* No tester, no run, no solver called.
NoRun ==
    /\ driver = "none"
    /\ auto_mode = FALSE
    /\ move_count = 0
    /\ test_results = <<>>
    /\ recent_moves = <<>>
    /\ recent_states = <<>>
    /\ recent_reasoning = <<>>
    /\ ai_move_result = NoResponse
    /\ requests = 0
    /\ halt = "none"
    /\ results = NoResults
    /\ mock = NoMock
    /\ moves = <<>>
    /\ seen = NoSeen
    /\ prompt = <<>>
    /\ argv = NoArgv
    /\ twin = NoTwin

---------------------------------------------------------------------------
(* The game driven through its methods in any order: Spec. *)

\* TowersOfHanoi(n), n in 1..MaxDisks.
Init ==
    /\ num_disks \in 1..MaxDisks
    /\ state = reset(num_disks)
    /\ call = [op |-> "__init__", move |-> NoMove]
    /\ ret = [value |-> FALSE, reason |-> ReasonNone]
    /\ pre = reset(num_disks)
    /\ applied = 0
    /\ pc = "api"
    /\ optimal_moves = <<>>
    /\ i = 0
    /\ NoRun

\* game.reset()
GameReset ==
    /\ pc = "api"
    /\ state' = reset(num_disks)
    /\ call' = [op |-> "reset", move |-> NoMove]
    /\ ret' = [value |-> FALSE, reason |-> ReasonNone]
    /\ pre' = state
    /\ applied' = 0
    /\ UNCHANGED <<num_disks, pc, optimal_moves, i>>
    /\ UNCHANGED runVars

\* game.reset() where the texts returned before are not kept track of.
Reset ==
    /\ GameReset
    /\ UNCHANGED seen

\* game.is_valid_move(move)
GameIsValidMove(move) ==
    /\ pc = "api"
    /\ state' = is_valid_move_state(state, move)
    /\ call' = [op |-> "is_valid_move", move |-> move]
    /\ ret' = is_valid_move(state, move)
    /\ pre' = state
    /\ UNCHANGED <<num_disks, applied, pc, optimal_moves, i>>
    /\ UNCHANGED runVars

\* game.is_valid_move(move) where the texts returned before are not kept
\* track of.
IsValidMove(move) ==
    /\ GameIsValidMove(move)
    /\ UNCHANGED seen

\* game.make_move(move); the count of applied moves is kept within the
\* move budget of the test runner.
GameMakeMove(move) ==
    /\ pc = "api"
    /\ applied < runner_max_moves(num_disks)
    /\ LET r == make_move(state, move)
       IN  /\ state' = r.state
           /\ ret' = [value |-> r.value, reason |-> ReasonNone]
           /\ applied' = IF r.value THEN applied + 1 ELSE applied
    /\ call' = [op |-> "make_move", move |-> move]
    /\ pre' = state
    /\ UNCHANGED <<num_disks, pc, optimal_moves, i>>
    /\ UNCHANGED runVars

\* game.make_move(move) where the texts returned before are not kept
\* track of.
MakeMove(move) ==
    /\ GameMakeMove(move)
    /\ UNCHANGED seen

Next ==
    \/ Reset
    \/ \E move \in HanoiMove : IsValidMove(move)
    \/ \E move \in HanoiMove : MakeMove(move)

Spec == Init /\ [][Next]_vars

---------------------------------------------------------------------------
(* The game and its description methods: SpecDescribe. *)

MaxDescribeDisks == 2

\* TowersOfHanoi(n), n in 1..MaxDescribeDisks.
DescribeInit ==
    /\ num_disks \in 1..MaxDescribeDisks
    /\ state = reset(num_disks)
    /\ call = [op |-> "__init__", move |-> NoMove]
    /\ ret = [value |-> FALSE, reason |-> ReasonNone]
    /\ pre = reset(num_disks)
    /\ applied = 0
    /\ pc = "api"
    /\ optimal_moves = <<>>
    /\ i = 0
    /\ NoRun

\* The method m called when some text is kept.
Between(m) ==
    IF seen.since_reset = NoTexts THEN seen.between
    ELSE seen.between \cup {m}

\* A description method has returned text.
Returned(m, text) ==
    [since_move |-> [seen.since_move EXCEPT ![m] = text],
     since_reset |-> [seen.since_reset EXCEPT ![m] = text],
     between |-> seen.between,
     repeated |-> seen.since_reset[m] # <<>>]

\* game.get_state_description()
GetStateDescription ==
    /\ pc = "api"
    /\ LET r == get_state_description(state)
       IN  /\ state' = r.state
           /\ seen' = Returned("get_state_description", r.text)
    /\ call' = [op |-> "get_state_description", move |-> NoMove]
    /\ ret' = [value |-> FALSE, reason |-> ReasonNone]
    /\ pre' = state
    /\ UNCHANGED <<num_disks, applied, pc, optimal_moves, i>>
    /\ UNCHANGED runVars

\* game.get_state_for_ai()
GetStateForAi ==
    /\ pc = "api"
    /\ LET r == get_state_for_ai(state, num_disks)
       IN  /\ state' = r.state
           /\ seen' = Returned("get_state_for_ai", r.text)
    /\ call' = [op |-> "get_state_for_ai", move |-> NoMove]
    /\ ret' = [value |-> FALSE, reason |-> ReasonNone]
    /\ pre' = state
    /\ UNCHANGED <<num_disks, applied, pc, optimal_moves, i>>
    /\ UNCHANGED runVars

\* game.is_valid_move(move) between two descriptions.
DescribeIsValidMove(move) ==
    /\ GameIsValidMove(move)
    /\ seen' = [seen EXCEPT !.between = Between("is_valid_move"),
                            !.repeated = FALSE]

\* game.make_move(move) between two descriptions: a move that is applied
\* makes the texts returned before stale.
DescribeMakeMove(move) ==
    /\ GameMakeMove(move)
    /\ seen' = IF ret'.value THEN NoSeen
               ELSE [seen EXCEPT !.between = Between("make_move"),
                                 !.repeated = FALSE]

\* game.reset() between two descriptions: the texts returned since the
\* last applied move are kept, to be compared with the next ones.
DescribeReset ==
    /\ GameReset
    /\ seen' = [since_move |-> seen.since_move, since_reset |-> NoTexts,
                between |-> {}, repeated |-> FALSE]

DescribeNext ==
    \/ GetStateDescription
    \/ GetStateForAi
    \/ \E move \in HanoiMove : DescribeIsValidMove(move)
    \/ \E move \in HanoiMove : DescribeMakeMove(move)
    \/ DescribeReset

SpecDescribe == DescribeInit /\ [][DescribeNext]_vars

---------------------------------------------------------------------------
(* demo_optimal.py, demo_optimal_solution(num_disks): SpecDemo. *)

\* game = TowersOfHanoi(n); optimal_moves = OptimalSolver(n).solve()
DemoInit ==
    /\ num_disks \in 1..MaxSolverDisks
    /\ state = reset(num_disks)
    /\ call = [op |-> "__init__", move |-> NoMove]
    /\ ret = [value |-> FALSE, reason |-> ReasonNone]
    /\ pre = reset(num_disks)
    /\ applied = 0
    /\ pc = "loop"
    /\ optimal_moves = solve(num_disks)
    /\ i = 0
    /\ NoRun

\* One iteration of "for i, move in enumerate(optimal_moves)": make_move,
\* break when it fails, then the prompt, where "q" (or EOF) breaks too.
DemoIteration(user_input) ==
    /\ pc = "loop"
    /\ i < Len(optimal_moves)
    /\ LET move == optimal_moves[i + 1]
           r == make_move(state, move)
       IN  /\ state' = r.state
           /\ call' = [op |-> "make_move", move |-> move]
           /\ ret' = [value |-> r.value, reason |-> ReasonNone]
           /\ pre' = state
           /\ applied' = IF r.value THEN applied + 1 ELSE applied
           /\ i' = IF r.value THEN i + 1 ELSE i
           /\ pc' = IF ~r.value THEN "broken"
                    ELSE IF user_input = "q" THEN "interrupted"
                    ELSE "loop"
    /\ UNCHANGED <<num_disks, optimal_moves>>
    /\ UNCHANGED runVars
    /\ UNCHANGED seen

\* After the loop: game.is_solved() decides the closing message.
DemoFinal ==
    /\ \/ pc = "loop" /\ i = Len(optimal_moves)
       \/ pc \in {"broken", "interrupted"}
    /\ pc' = IF is_solved(state, num_disks) THEN "perfect" ELSE "wrong"
    /\ UNCHANGED <<num_disks, state, call, ret, pre, applied, optimal_moves, i>>
    /\ UNCHANGED runVars
    /\ UNCHANGED seen

DemoNext ==
    \/ \E user_input \in {"", "q"} : DemoIteration(user_input)
    \/ DemoFinal

SpecDemo == DemoInit /\ [][DemoNext]_vars

---------------------------------------------------------------------------
(* An OptimalSolver(n) whose methods are called in any order: SpecSolver. *)

\* Largest move_number a solver is asked about (the smallest is -1): beyond
\* the last index of the sequences of up to 4 disks, within the longer ones.
MaxMoveNumber == 16

\* Largest number of solve() calls made on one solver.
MaxSolveCalls == 2

\* OptimalSolver(n): moves = [].
SolverInit ==
    /\ num_disks \in 1..MaxSolverDisks
    /\ state = reset(num_disks)
    /\ call = [op |-> "__init__", move |-> NoMove]
    /\ ret = [value |-> FALSE, reason |-> ReasonNone]
    /\ pre = reset(num_disks)
    /\ applied = 0
    /\ pc = "solver"
    /\ optimal_moves = <<>>
    /\ i = 0
    /\ driver = "none"
    /\ auto_mode = FALSE
    /\ move_count = 0
    /\ test_results = <<>>
    /\ recent_moves = <<>>
    /\ recent_states = <<>>
    /\ recent_reasoning = <<>>
    /\ ai_move_result = NoResponse
    /\ requests = 0
    /\ halt = "none"
    /\ results = NoResults
    /\ mock = NoMock
    /\ moves = <<>>
    /\ seen = NoSeen
    /\ prompt = <<>>
    /\ argv = NoArgv
    /\ twin = NoTwin

\* optimal_moves = solver.solve(); applied counts the solve() calls made.
SolverSolve ==
    /\ pc = "solver"
    /\ applied < MaxSolveCalls
    /\ moves' = solver_solve(moves, num_disks)
    /\ optimal_moves' = moves'
    /\ call' = [op |-> "solve", move |-> NoMove]
    /\ ret' = [value |-> TRUE, reason |-> ReasonNone]
    /\ applied' = applied + 1
    /\ UNCHANGED <<num_disks, state, pre, pc, i, driver, auto_mode, move_count,
                   test_results, recent_moves, recent_states, recent_reasoning,
                   ai_move_result, requests, halt, results, mock, seen, prompt,
                   argv, twin>>

\* solver.get_next_optimal_move(move_number): call.move is the move it
\* returned, ret.value is FALSE when it raised IndexError.
GetNextOptimalMove(move_number) ==
    /\ pc = "solver"
    /\ LET r == get_next_optimal_move(moves, num_disks, move_number)
       IN  /\ moves' = r.moves
           /\ call' = [op |-> "get_next_optimal_move", move |-> r.value]
           /\ ret' = [value |-> r.kind = "value", reason |-> ReasonNone]
    /\ i' = move_number
    /\ UNCHANGED <<num_disks, state, pre, applied, pc, optimal_moves, driver,
                   auto_mode, move_count, test_results, recent_moves,
                   recent_states, recent_reasoning, ai_move_result, requests,
                   halt, results, mock, seen, prompt,
                   argv, twin>>

\* solver.is_optimal_move(move, move_number): ret.value is what it returned.
IsOptimalMove(move, move_number) ==
    /\ pc = "solver"
    /\ LET r == is_optimal_move(moves, num_disks, move, move_number)
       IN  /\ moves' = r.moves
           /\ ret' = [value |-> r.value, reason |-> ReasonNone]
    /\ call' = [op |-> "is_optimal_move", move |-> move]
    /\ i' = move_number
    /\ UNCHANGED <<num_disks, state, pre, applied, pc, optimal_moves, driver,
                   auto_mode, move_count, test_results, recent_moves,
                   recent_states, recent_reasoning, ai_move_result, requests,
                   halt, results, mock, seen, prompt,
                   argv, twin>>

SolverNext ==
    \/ SolverSolve
    \/ \E move \in HanoiMove, move_number \in -1..MaxMoveNumber :
           IsOptimalMove(move, move_number)
    \/ \E move_number \in -1..MaxMoveNumber :
           GetNextOptimalMove(move_number)

SpecSolver == SolverInit /\ [][SolverNext]_vars

---------------------------------------------------------------------------
(* testing/ai_tester.py, testing/results_manager.py, main.py *)

\* What the move source answers to one get_next_move call: a
\* HanoiMoveResponse (move, reasoning) or an exception.
Reasonings == {"reasoning"}
Responses ==
    [kind : {"move"}, move : HanoiMove, reasoning : Reasonings]
    \cup {[kind |-> "failure", move |-> NoMove, reasoning |-> ""]}

\* The tester object, from the variables that hold its fields.
Tester ==
    [game |-> state, move_count |-> move_count, test_results |-> test_results,
     recent_moves |-> recent_moves, recent_states |-> recent_states,
     recent_reasoning |-> recent_reasoning]

\* One entry of test_results. Its 'ai_move' and 'ai_reasoning' entries copy
\* the response and are never read back by the run; they are left out.
TestRecord(turn, is_valid) == [turn |-> turn, is_valid |-> is_valid]

\* "if len(self.recent_moves) > 3": the size of the history window.
WindowSize == 3

\* Faulty variant: a full window keeps its entries and drops the new one.
push_recent_drop_newest(t, ai_move, state_before_move, ai_reasoning, with_reasoning) ==
    IF Len(t.recent_moves) >= 3
    THEN t
    ELSE [t EXCEPT
            !.recent_moves = Append(@, ai_move),
            !.recent_states = Append(@, state_before_move),
            !.recent_reasoning =
                IF with_reasoning THEN Append(@, ai_reasoning) ELSE @]

\* Faulty variant: state_before_move holds the tower lists themselves, not
\* copies of them; make_move changes those lists in place, so every entry
\* of recent_states reads as the towers of now.
push_recent_aliased(t, ai_move, state_before_move, ai_reasoning, with_reasoning) ==
    LET moves1 == Append(t.recent_moves, ai_move)
        states1 == [k \in 1..(Len(t.recent_states) + 1) |-> t.game]
        reasoning1 == IF with_reasoning
                      THEN Append(t.recent_reasoning, ai_reasoning)
                      ELSE t.recent_reasoning
        over == Len(moves1) > WindowSize
    IN  [t EXCEPT
           !.recent_moves = IF over THEN Tail(moves1) ELSE moves1,
           !.recent_states = IF over THEN Tail(states1) ELSE states1,
           !.recent_reasoning =
               IF over /\ with_reasoning THEN Tail(reasoning1) ELSE reasoning1]

\* append to the three history lists, then pop(0) from each when
\* recent_moves holds more than 3 entries. with_reasoning is FALSE for
\* main.py, whose tester has no recent_reasoning list.
push_recent(t, ai_move, state_before_move, ai_reasoning, with_reasoning) ==
    LET moves1 == Append(t.recent_moves, ai_move)
        states1 == Append(t.recent_states, state_before_move)
        reasoning1 == IF with_reasoning
                      THEN Append(t.recent_reasoning, ai_reasoning)
                      ELSE t.recent_reasoning
        over == Len(moves1) > WindowSize
    IN  [t EXCEPT
           !.recent_moves = IF over THEN Tail(moves1) ELSE moves1,
           !.recent_states = IF over THEN Tail(states1) ELSE states1,
           !.recent_reasoning =
               IF over /\ with_reasoning THEN Tail(reasoning1) ELSE reasoning1]

\* Faulty variant: a rejected move is counted as a consumed move.
validate_and_execute_counting(t, ai_move, ai_reasoning) ==
    LET v == is_valid_move(t.game, ai_move)
        r == make_move(t.game, ai_move)
    IN  IF ~v.value
        THEN [success |-> FALSE, message |-> v.reason,
              tester |-> [t EXCEPT !.move_count = @ + 1]]
        ELSE [success |-> r.value,
              message |-> <<"Move executed successfully">>,
              tester |-> push_recent(
                  [t EXCEPT !.game = r.state, !.move_count = @ + 1,
                            !.test_results =
                                Append(@, TestRecord(t.move_count + 1, TRUE))],
                  ai_move, t.game, ai_reasoning, TRUE)]

\* Faulty variant: the record is appended before the verdict is looked at,
\* so a rejected move leaves a record with is_valid false.
validate_and_execute_recording_all(t, ai_move, ai_reasoning) ==
    LET v == is_valid_move(t.game, ai_move)
        t1 == [t EXCEPT !.test_results =
                   Append(@, TestRecord(t.move_count + 1, v.value))]
        r == make_move(t1.game, ai_move)
    IN  IF ~v.value
        THEN [success |-> FALSE, message |-> v.reason, tester |-> t1]
        ELSE [success |-> r.value,
              message |-> <<"Move executed successfully">>,
              tester |-> push_recent(
                  [t1 EXCEPT !.game = r.state, !.move_count = @ + 1],
                  ai_move, t1.game, ai_reasoning, TRUE)]

\* testing.HanoiAITester.validate_and_execute_move: (success, message) and
\* the tester it leaves behind.
validate_and_execute_move(t, ai_move, ai_reasoning) ==
    LET v == is_valid_move(t.game, ai_move)
    IN  IF ~v.value
        THEN [success |-> FALSE, message |-> v.reason, tester |-> t]
        ELSE
        LET t1 == [t EXCEPT !.test_results =
                       Append(@, TestRecord(t.move_count + 1, v.value))]
        IN  IF v.value
            THEN LET state_before_move == t1.game
                     r == make_move(t1.game, ai_move)
                     t2 == [t1 EXCEPT !.game = r.state]
                 IN  IF r.value
                     THEN [success |-> TRUE,
                           message |-> <<"Move executed successfully">>,
                           tester |-> push_recent(
                               [t2 EXCEPT !.move_count = @ + 1],
                               ai_move, state_before_move, ai_reasoning, TRUE)]
                     ELSE [success |-> FALSE,
                           message |-> <<"Failed to execute move">>,
                           tester |-> t2]
            ELSE [success |-> FALSE, message |-> <<"Invalid move">>,
                  tester |-> t1]

\* main.HanoiAITester.run_test, lines 141-190 of the loop body: validate,
\* record, execute. success is FALSE where the body breaks.
main_validate_and_execute(t, ai_move, ai_reasoning) ==
    LET v == is_valid_move(t.game, ai_move)
        t1 == [t EXCEPT !.test_results =
                   Append(@, TestRecord(t.move_count + 1, v.value))]
    IN  IF v.value
        THEN LET state_before_move == t1.game
                 r == make_move(t1.game, ai_move)
                 t2 == [t1 EXCEPT !.game = r.state]
             IN  IF r.value
                 THEN [success |-> TRUE,
                       tester |-> push_recent(
                           [t2 EXCEPT !.move_count = @ + 1],
                           ai_move, state_before_move, ai_reasoning, FALSE)]
                 ELSE [success |-> FALSE, tester |-> t2]
        ELSE [success |-> FALSE, tester |-> t1]

\* list[-3:]
last3(list) ==
    IF Len(list) <= 3 THEN list ELSE SubSeq(list, Len(list) - 2, Len(list))

\* The smaller and the larger of two integers.
min(a, b) == IF a <= b THEN a ELSE b
max(a, b) == IF a >= b THEN a ELSE b

\* The first lines of the prompt: the puzzle, the turn and the towers.
prompt_head(t, n) ==
    <<ToString(n), "-disk Towers of Hanoi puzzle - Turn #",
      ToString(t.move_count + 1), "\n\nCURRENT STATE:\nTower A: ">>
    \o py_str_or_empty(t.game.tower_a)
    \o <<"\nTower B: ">> \o py_str_or_empty(t.game.tower_b)
    \o <<"  \nTower C: ">> \o py_str_or_empty(t.game.tower_c)

\* One history entry of the prompt, up to "Move made"; str(move) is
\* HanoiMove.__str__.
prompt_entry(move_num, move, state_before) ==
    <<"\n\n--- Move ", ToString(move_num), " ---", "\nState before move:",
      "\n  Tower A: ">> \o py_str_or_empty(state_before.tower_a)
    \o <<"\n  Tower B: ">> \o py_str_or_empty(state_before.tower_b)
    \o <<"\n  Tower C: ">> \o py_str_or_empty(state_before.tower_c)
    \o <<"\nMove made: ", "Move disk from tower ", move.source_tower,
         " to tower ", move.destination_tower>>

\* main.py, HanoiAITester._create_ai_prompt: the text, in the pieces of its
\* f-strings. zip stops at the shorter of the two lists shown.
main_create_ai_prompt(t, n) ==
    LET recent_moves_to_show == last3(t.recent_moves)
        recent_states_to_show == last3(t.recent_states)
        start_move_num ==
            max(1, t.move_count - Len(recent_moves_to_show) + 1)
        zipped == min(Len(recent_moves_to_show), Len(recent_states_to_show))
        entries[k \in 0..zipped] ==
            IF k = 0 THEN <<>>
            ELSE entries[k - 1]
                 \o prompt_entry(start_move_num + (k - 1),
                                 recent_moves_to_show[k],
                                 recent_states_to_show[k])
    IN  prompt_head(t, n)
        \o ( IF t.recent_moves # <<>> /\ t.recent_states # <<>>
             THEN <<"\n\nRECENT GAME HISTORY:">> \o entries[zipped]
             ELSE <<>> )
        \o <<"\n\nNOTE: Avoid making moves that would return to any of the previous states shown above.">>

\* Faulty variant: the entries are numbered from 1 in every prompt.
create_ai_prompt_from_one(t, n) ==
    LET recent_moves_to_show == last3(t.recent_moves)
        recent_states_to_show == last3(t.recent_states)
        recent_reasoning_to_show == last3(t.recent_reasoning)
        zipped == min(Len(recent_moves_to_show),
                      min(Len(recent_states_to_show),
                          Len(recent_reasoning_to_show)))
        entries[k \in 0..zipped] ==
            IF k = 0 THEN <<>>
            ELSE entries[k - 1]
                 \o prompt_entry(k, recent_moves_to_show[k],
                                 recent_states_to_show[k])
                 \o <<"\nReasoning: ", recent_reasoning_to_show[k]>>
    IN  prompt_head(t, n)
        \o ( IF /\ t.recent_moves # <<>>
                /\ t.recent_states # <<>>
                /\ t.recent_reasoning # <<>>
             THEN <<"\n\nRECENT GAME HISTORY:">> \o entries[zipped]
             ELSE <<>> )

\* testing/ai_tester.py, HanoiAITester._create_ai_prompt: the text, with
\* the reasoning of each move shown and no closing note.
create_ai_prompt(t, n) ==
    LET recent_moves_to_show == last3(t.recent_moves)
        recent_states_to_show == last3(t.recent_states)
        recent_reasoning_to_show == last3(t.recent_reasoning)
        start_move_num ==
            max(1, t.move_count - Len(recent_moves_to_show) + 1)
        zipped == min(Len(recent_moves_to_show),
                      min(Len(recent_states_to_show),
                          Len(recent_reasoning_to_show)))
        entries[k \in 0..zipped] ==
            IF k = 0 THEN <<>>
            ELSE entries[k - 1]
                 \o prompt_entry(start_move_num + (k - 1),
                                 recent_moves_to_show[k],
                                 recent_states_to_show[k])
                 \o <<"\nReasoning: ", recent_reasoning_to_show[k]>>
    IN  prompt_head(t, n)
        \o ( IF /\ t.recent_moves # <<>>
                /\ t.recent_states # <<>>
                /\ t.recent_reasoning # <<>>
             THEN <<"\n\nRECENT GAME HISTORY:">> \o entries[zipped]
             ELSE <<>> )

\* HanoiAITester.get_ai_move: (response.move, response.reasoning), or None
\* when get_next_move raised.
get_ai_move(response) ==
    IF response.kind = "failure"
    THEN [kind |-> "None", move |-> NoMove, reasoning |-> ""]
    ELSE [kind |-> "move", move |-> response.move,
          reasoning |-> response.reasoning]

\* Faulty variant: a turn without a move is skipped, not ended.
loop_body_skips_none(t, ai_move_result_, drv) ==
    IF ai_move_result_.kind = "None"
    THEN [success |-> TRUE, tester |-> t]
    ELSE IF drv = "runner"
    THEN LET r == validate_and_execute_move(
                      t, ai_move_result_.move, ai_move_result_.reasoning)
         IN  [success |-> r.success, tester |-> r.tester]
    ELSE main_validate_and_execute(
             t, ai_move_result_.move, ai_move_result_.reasoning)

\* The loop body of run_test from the None test to the last break before the
\* prompt, in the driver drv: success is FALSE where the body breaks.
loop_body(t, ai_move_result_, drv) ==
    IF ai_move_result_.kind = "None"
    THEN [success |-> FALSE, tester |-> t]
    ELSE IF drv = "runner"
    THEN LET r == validate_and_execute_move(
                      t, ai_move_result_.move, ai_move_result_.reasoning)
         IN  [success |-> r.success, tester |-> r.tester]
    ELSE main_validate_and_execute(
             t, ai_move_result_.move, ai_move_result_.reasoning)

\* Faulty variant: the ratio cut to a tenth instead of rounded.
efficiency_truncated(optimal, count) == (optimal * 1000) \div count

\* round(optimal_moves / move_count * 100, 1), in tenths of a percent:
\* the nearest tenth, a tie going to the even one.
efficiency_rounded(optimal, count) ==
    LET num == optimal * 1000
        q == num \div count
        twice == 2 * (num % count)
    IN  IF twice > count THEN q + 1
        ELSE IF twice < count THEN q
        ELSE IF q % 2 = 0 THEN q ELSE q + 1

\* Faulty variant: a solved puzzle is a success whatever it cost.
outcome_ignores_budget(solved, count, optimal, max_moves) ==
    IF solved
    THEN IF count <= optimal
         THEN [success |-> TRUE, status |-> "OPTIMAL_SUCCESS"]
         ELSE [success |-> TRUE, status |-> "SUCCESS"]
    ELSE [success |-> FALSE, status |-> "FAILURE"]

\* Faulty variant: a count equal to the budget is not within the budget.
outcome_strict(solved, count, optimal, max_moves) ==
    IF solved
    THEN IF count <= optimal
         THEN [success |-> TRUE, status |-> "OPTIMAL_SUCCESS"]
         ELSE IF count < max_moves
         THEN [success |-> TRUE, status |-> "SUCCESS"]
         ELSE [success |-> FALSE, status |-> "FAILURE"]
    ELSE [success |-> FALSE, status |-> "FAILURE"]

\* The status and success flag both drivers derive the same way.
outcome(solved, count, optimal, max_moves) ==
    IF solved
    THEN IF count <= optimal
         THEN [success |-> TRUE, status |-> "OPTIMAL_SUCCESS"]
         ELSE IF count <= max_moves
         THEN [success |-> TRUE, status |-> "SUCCESS"]
         ELSE [success |-> FALSE, status |-> "FAILURE"]
    ELSE [success |-> FALSE, status |-> "FAILURE"]

\* The dictionary of results; efficiency_percent is held in tenths.
results_dict(n, o, count, optimal, max_moves, efficiency, details) ==
    [num_disks |-> n,
     success |-> o.success,
     status |-> o.status,
     total_moves |-> count,
     optimal_moves |-> optimal,
     max_moves |-> max_moves,
     efficiency_percent |-> efficiency,
     exceeded_optimal |-> count > optimal,
     exceeded_budget |-> count > max_moves,
     move_details |-> details]

\* ResultsManager.generate_test_results
generate_test_results(n, solved, count, details, optimal, max_moves) ==
    LET o == outcome(solved, count, optimal, max_moves)
        efficiency == IF solved
                      THEN IF count > 0
                           THEN efficiency_rounded(optimal, count) ELSE 0
                      ELSE 0
    IN  results_dict(n, o, count, optimal, max_moves, efficiency, details)

\* main.HanoiAITester._generate_test_results
main_generate_test_results(n, solved, count, details, optimal, max_moves) ==
    LET o == outcome(solved, count, optimal, max_moves)
        efficiency == IF count > 0
                      THEN efficiency_rounded(optimal, count) ELSE 0
    IN  results_dict(n, o, count, optimal, max_moves, efficiency, details)

---------------------------------------------------------------------------
(* One evaluation run, by either driver: SpecRun. *)

\* Largest disk count of an evaluation run.
MaxRunDisks == 2

Drivers == {"main", "runner"}

\* HanoiAITester(num_disks) (or TestRunner(num_disks)), run_test not yet
\* entered.
RunInit ==
    /\ num_disks \in 1..MaxRunDisks
    /\ state = reset(num_disks)
    /\ call = [op |-> "__init__", move |-> NoMove]
    /\ ret = [value |-> FALSE, reason |-> ReasonNone]
    /\ pre = reset(num_disks)
    /\ applied = 0
    /\ pc = "start"
    /\ optimal_moves = <<>>
    /\ i = 0
    /\ driver \in Drivers
    /\ auto_mode \in BOOLEAN
    /\ move_count = 0
    /\ test_results = <<>>
    /\ recent_moves = <<>>
    /\ recent_states = <<>>
    /\ recent_reasoning = <<>>
    /\ ai_move_result = NoResponse
    /\ requests = 0
    /\ halt = "none"
    /\ results = NoResults
    /\ mock = NoMock
    /\ moves = <<>>
    /\ seen = NoSeen
    /\ prompt = <<>>
    /\ argv = NoArgv
    /\ twin = NoTwin

\* run_test up to the loop: initialize_ai() fails (HanoiAIClient() raises
\* ValueError) and run_test returns {"error": ...}, or the loop is entered.
RunStart(client_ok) ==
    /\ pc = "start"
    /\ pc' = IF client_ok THEN "run" ELSE "error"
    /\ results' = IF client_ok THEN results
                  ELSE [status |-> "error"]
    /\ UNCHANGED <<num_disks, state, call, ret, pre, applied, optimal_moves, i,
                   driver, auto_mode, move_count, test_results, recent_moves,
                   recent_states, recent_reasoning, ai_move_result, requests,
                   halt, mock, moves, seen, prompt,
                   argv, twin>>

\* Faulty variant: the budget compared with <=.
LoopCondition_le ==
    /\ ~is_solved(state, num_disks)
    /\ move_count <= runner_max_moves(num_disks)

\* "while not is_solved() and move_count < max_moves"
LoopCondition ==
    /\ ~is_solved(state, num_disks)
    /\ move_count < runner_max_moves(num_disks)

\* One iteration of the loop: get_ai_move, then the body up to the prompt;
\* unless auto_mode, the prompt, where "q", EOF or KeyboardInterrupt break.
\* applied counts the turns whose make_move changed the towers; halt keeps
\* which break left the loop.
Turn(response, user_input) ==
    /\ pc = "run"
    /\ LoopCondition
    /\ LET result == get_ai_move(response)
           r == loop_body(Tester, result, driver)
           valid == result.kind = "move"
                    /\ is_valid_move(state, result.move).value
       IN  /\ ai_move_result' = result
           /\ requests' = requests + 1
           /\ state' = r.tester.game
           /\ move_count' = r.tester.move_count
           /\ test_results' = r.tester.test_results
           /\ recent_moves' = r.tester.recent_moves
           /\ recent_states' = r.tester.recent_states
           /\ recent_reasoning' = r.tester.recent_reasoning
           /\ applied' = IF r.tester.game # state THEN applied + 1 ELSE applied
           /\ pc' = IF ~r.success THEN "break"
                    ELSE IF ~auto_mode /\ user_input = "q" THEN "break"
                    ELSE "run"
           /\ halt' = IF r.success
                      THEN IF ~auto_mode /\ user_input = "q"
                           THEN "user" ELSE "none"
                      ELSE IF result.kind = "None" THEN "source_failure"
                      ELSE IF ~valid THEN "invalid_move"
                      ELSE "execute_failure"
    /\ UNCHANGED <<num_disks, call, ret, pre, optimal_moves, i,
                   driver, auto_mode, results, moves, seen,
                   argv>>

\* A turn of a run whose move source is not a MockAIClient; the prompt
\* sent to the source is not kept.
RunTurn(response, user_input) ==
    /\ Turn(response, user_input)
    /\ UNCHANGED <<mock, prompt, twin>>

\* After the loop: the results dictionary is generated and returned.
RunFinish ==
    /\ \/ pc = "break"
       \/ pc = "run" /\ ~LoopCondition
    /\ pc' = "done"
    /\ halt' = IF pc = "break" THEN halt
               ELSE IF is_solved(state, num_disks) THEN "solved"
               ELSE "budget"
    /\ results' =
         IF driver = "runner"
         THEN generate_test_results(
                  num_disks, is_solved(state, num_disks), move_count,
                  test_results, runner_optimal_moves(num_disks),
                  runner_max_moves(num_disks))
         ELSE main_generate_test_results(
                  num_disks, is_solved(state, num_disks), move_count,
                  test_results, runner_optimal_moves(num_disks),
                  runner_max_moves(num_disks))
    /\ UNCHANGED <<num_disks, state, call, ret, pre, applied, optimal_moves, i,
                   driver, auto_mode, move_count, test_results, recent_moves,
                   recent_states, recent_reasoning, ai_move_result, requests,
                   mock, moves, seen, prompt,
                   argv, twin>>

RunNext ==
    \/ \E client_ok \in BOOLEAN : RunStart(client_ok)
    \/ \E response \in Responses, user_input \in {"", "q"} :
           RunTurn(response, user_input)
    \/ RunFinish

SpecRun == RunInit /\ [][RunNext]_vars

\* The run is one sequential thread whose calls return: a step that can be
\* taken is taken.
SpecRunFair == SpecRun /\ WF_vars(RunNext)

---------------------------------------------------------------------------
(* A run the user may interrupt while the move source is called:
   SpecInterrupt. *)

\* KeyboardInterrupt raised inside get_next_move. It is no Exception, so
\* the "except Exception" of get_ai_move (and of the client) lets it pass;
\* the loop has no handler around get_ai_move and run_test has none either:
\* the exception leaves run_test, which returns nothing.
SourceInterrupted ==
    /\ pc = "run"
    /\ LoopCondition
    /\ pc' = "raised"
    /\ halt' = "interrupt"
    /\ requests' = requests + 1
    /\ UNCHANGED <<num_disks, state, call, ret, pre, applied, optimal_moves, i,
                   driver, auto_mode, move_count, test_results, recent_moves,
                   recent_states, recent_reasoning, ai_move_result, results,
                   mock, moves, seen, prompt,
                   argv, twin>>

InterruptNext == RunNext \/ SourceInterrupted

SpecInterrupt == RunInit /\ [][InterruptNext]_vars

---------------------------------------------------------------------------
(* The prompts of a run in auto mode, and test_recent_moves.py, where
   _create_ai_prompt is called on a tester whose fields were set by hand:
   SpecPrompt. *)

MaxPromptDisks == 2

\* HanoiAITester(num_disks) (or TestRunner(num_disks)) before
\* run_test(auto_mode=True).
PromptRunInit ==
    /\ num_disks \in 1..MaxPromptDisks
    /\ state = reset(num_disks)
    /\ call = [op |-> "__init__", move |-> NoMove]
    /\ ret = [value |-> FALSE, reason |-> ReasonNone]
    /\ pre = reset(num_disks)
    /\ applied = 0
    /\ pc = "start"
    /\ optimal_moves = <<>>
    /\ i = 0
    /\ driver \in Drivers
    /\ auto_mode = TRUE
    /\ move_count = 0
    /\ test_results = <<>>
    /\ recent_moves = <<>>
    /\ recent_states = <<>>
    /\ recent_reasoning = <<>>
    /\ ai_move_result = NoResponse
    /\ requests = 0
    /\ halt = "none"
    /\ results = NoResults
    /\ mock = NoMock
    /\ moves = <<>>
    /\ seen = NoSeen
    /\ prompt = <<>>
    /\ argv = NoArgv
    /\ twin = NoTwin

\* A turn of the run: get_ai_move builds the prompt from the tester as the
\* turn finds it, the move source answers, the loop body follows.
PromptTurn(response) ==
    /\ Turn(response, "")
    /\ prompt' = IF driver = "runner"
                 THEN create_ai_prompt(Tester, num_disks)
                 ELSE main_create_ai_prompt(Tester, num_disks)
    /\ UNCHANGED <<mock, twin>>

\* "tester.move_count = 5": the length of the lists of the script.
HistoryTested == 5

\* The moves and the states before them the script sets the lists from.
test_moves ==
    <<[source_tower |-> "A", destination_tower |-> "C"],
      [source_tower |-> "A", destination_tower |-> "B"],
      [source_tower |-> "C", destination_tower |-> "B"],
      [source_tower |-> "A", destination_tower |-> "C"],
      [source_tower |-> "B", destination_tower |-> "A"]>>

test_states ==
    <<[tower_a |-> <<1, 2, 3>>, tower_b |-> <<>>, tower_c |-> <<>>],
      [tower_a |-> <<2, 3>>, tower_b |-> <<>>, tower_c |-> <<1>>],
      [tower_a |-> <<3>>, tower_b |-> <<2>>, tower_c |-> <<1>>],
      [tower_a |-> <<3>>, tower_b |-> <<1, 2>>, tower_c |-> <<>>],
      [tower_a |-> <<>>, tower_b |-> <<1, 2>>, tower_c |-> <<3>>]>>

\* HanoiAITester(3) of either module, then move_count and the history
\* lists set to the first entries of the script's lists; the lists are no
\* longer than move_count.
PromptInit ==
    /\ num_disks = 3
    /\ state = reset(num_disks)
    /\ call = [op |-> "__init__", move |-> NoMove]
    /\ ret = [value |-> FALSE, reason |-> ReasonNone]
    /\ pre = reset(num_disks)
    /\ applied = 0
    /\ pc = "set"
    /\ optimal_moves = <<>>
    /\ i = 0
    /\ driver \in Drivers
    /\ auto_mode = TRUE
    /\ move_count \in 0..HistoryTested
    /\ test_results = <<>>
    /\ \E k \in 0..HistoryTested :
          /\ k <= move_count
          /\ recent_moves = SubSeq(test_moves, 1, k)
          /\ recent_states = SubSeq(test_states, 1, k)
          /\ recent_reasoning =
                IF driver = "runner" THEN [j \in 1..k |-> "reasoning"]
                ELSE <<>>
    /\ ai_move_result = NoResponse
    /\ requests = 0
    /\ halt = "none"
    /\ results = NoResults
    /\ mock = NoMock
    /\ moves = <<>>
    /\ seen = NoSeen
    /\ prompt = <<>>
    /\ argv = NoArgv
    /\ twin = NoTwin

\* prompt = tester._create_ai_prompt()
CreateAiPrompt ==
    /\ pc = "set"
    /\ pc' = "prompted"
    /\ prompt' = IF driver = "runner"
                 THEN create_ai_prompt(Tester, num_disks)
                 ELSE main_create_ai_prompt(Tester, num_disks)
    /\ UNCHANGED <<num_disks, state, call, ret, pre, applied, optimal_moves, i,
                   driver, auto_mode, move_count, test_results, recent_moves,
                   recent_states, recent_reasoning, ai_move_result, requests,
                   halt, results, mock, moves, seen,
                   argv, twin>>

PromptSpecInit == PromptRunInit \/ PromptInit

PromptNext ==
    \/ \E client_ok \in BOOLEAN : RunStart(client_ok)
    \/ \E response \in Responses : PromptTurn(response)
    \/ RunFinish
    \/ CreateAiPrompt

SpecPrompt == PromptSpecInit /\ [][PromptNext]_vars

---------------------------------------------------------------------------
(* main.py, main(): the command line, the interactive question, the tester
   and the entry of run_test: SpecMain. *)

\* The longest text typed as the disk count, in characters.
MaxArgLen == 2

\* The characters the texts are typed from; a text is a sequence of them.
Chars == {"-", "0", "1", "2", "9", "x"}

Texts == UNION {[1..len -> Chars] : len \in 0..MaxArgLen}

DigitChars == <<"0", "1", "2", "3", "4", "5", "6", "7", "8", "9">>

\* The digits of a text, most significant first, as a number.
RECURSIVE digits_value(_)
digits_value(digits) ==
    IF digits = <<>> THEN 0
    ELSE 10 * digits_value(SubSeq(digits, 1, Len(digits) - 1))
         + (CHOOSE d \in 0..9 : DigitChars[d + 1] = digits[Len(digits)])

\* int(text): an optional sign and at least one digit, or ValueError.
py_int(text) ==
    LET signed == text # <<>> /\ Head(text) \in {"-", "+"}
        digits == IF signed THEN Tail(text) ELSE text
        is_number ==
            /\ digits # <<>>
            /\ \A k \in 1..Len(digits) :
                  \E d \in 1..10 : DigitChars[d] = digits[k]
    IN  IF ~is_number THEN [kind |-> "ValueError", value |-> 0]
        ELSE [kind |-> "value",
              value |-> IF signed /\ Head(text) = "-"
                        THEN 0 - digits_value(digits)
                        ELSE digits_value(digits)]

\* No game exists: no tower holds anything, and no tester has a disk count.
NoGame == [tower_a |-> <<>>, tower_b |-> <<>>, tower_c |-> <<>>]

\* The process was started as "python -m src.main [num_disks] [--auto]";
\* nothing of main() has run, no tester (driver = "none") and no game
\* exist. Without the argument args.num_disks is None.
MainInit ==
    /\ argv \in [given : BOOLEAN, num_disks : Texts, auto : BOOLEAN]
    /\ ~argv.given => argv.num_disks = <<>>
    /\ pc = "main"
    /\ num_disks = 0
    /\ state = NoGame
    /\ call = [op |-> "none", move |-> NoMove]
    /\ ret = [value |-> FALSE, reason |-> ReasonNone]
    /\ pre = NoGame
    /\ applied = 0
    /\ optimal_moves = <<>>
    /\ i = 0
    /\ driver = "none"
    /\ auto_mode = FALSE
    /\ move_count = 0
    /\ test_results = <<>>
    /\ recent_moves = <<>>
    /\ recent_states = <<>>
    /\ recent_reasoning = <<>>
    /\ ai_move_result = NoResponse
    /\ requests = 0
    /\ halt = "none"
    /\ results = NoResults
    /\ mock = NoMock
    /\ moves = <<>>
    /\ seen = NoSeen
    /\ prompt = <<>>
    /\ twin = NoTwin

\* tester = HanoiAITester(n), then tester.run_test(auto_mode=args.auto) is
\* about to be entered.
CreateTester(n) ==
    /\ num_disks' = n
    /\ state' = reset(n)
    /\ pre' = reset(n)
    /\ call' = [op |-> "__init__", move |-> NoMove]
    /\ driver' = "main"
    /\ auto_mode' = argv.auto
    /\ pc' = "start"

\* The process ends before a tester exists: sys.exit(status), or argparse's
\* exit with status 2.
Exit(status) ==
    /\ pc' = status
    /\ UNCHANGED <<num_disks, state, pre, call, driver, auto_mode>>

\* The question is asked (again).
Ask ==
    /\ pc' = "input"
    /\ UNCHANGED <<num_disks, state, pre, call, driver, auto_mode>>

\* main() from parse_args to the first of: an exit, the interactive
\* question, the tester. argparse converts the argument with int and ends
\* the process with status 2 when that fails; "if args.num_disks:" takes
\* the command-line branch for a value that is not None and not 0.
Main ==
    /\ pc = "main"
    /\ LET parsed == IF argv.given THEN py_int(argv.num_disks)
                     ELSE [kind |-> "None", value |-> 0]
       IN  IF parsed.kind = "ValueError" THEN Exit("exit_2")
           ELSE IF parsed.kind = "value" /\ parsed.value # 0
           THEN IF 1 <= parsed.value /\ parsed.value <= 10
                THEN CreateTester(parsed.value)
                ELSE Exit("exit_1")
           ELSE Ask
    /\ UNCHANGED <<ret, applied, optimal_moves, i, move_count, test_results,
                   recent_moves, recent_states, recent_reasoning,
                   ai_move_result, requests, halt, results, mock, moves,
                   seen, prompt, argv, twin>>

\* One round of the interactive loop: the text typed is converted with
\* int; a value in 1..10 leaves the loop and the tester is created, any
\* other value and any other text ask again.
MainInput(text) ==
    /\ pc = "input"
    /\ LET parsed == py_int(text)
       IN  IF parsed.kind = "ValueError" THEN Ask
           ELSE IF 1 <= parsed.value /\ parsed.value <= 10
           THEN CreateTester(parsed.value)
           ELSE Ask
    /\ UNCHANGED <<ret, applied, optimal_moves, i, move_count, test_results,
                   recent_moves, recent_states, recent_reasoning,
                   ai_move_result, requests, halt, results, mock, moves,
                   seen, prompt, argv, twin>>

\* EOFError or KeyboardInterrupt at the question: "Goodbye!", sys.exit(0).
MainInputEnds ==
    /\ pc = "input"
    /\ Exit("exit_0")
    /\ UNCHANGED <<ret, applied, optimal_moves, i, move_count, test_results,
                   recent_moves, recent_states, recent_reasoning,
                   ai_move_result, requests, halt, results, mock, moves,
                   seen, prompt, argv, twin>>

MainNext ==
    \/ Main
    \/ \E text \in Texts : MainInput(text)
    \/ MainInputEnds
    \/ \E client_ok \in BOOLEAN : RunStart(client_ok)

SpecMain == MainInit /\ [][MainNext]_vars

---------------------------------------------------------------------------
(* main.HanoiAITester.run_test(auto_mode=True) and, in twin, a
   TestRunner.run_test(auto_mode=True) whose move source gives the same
   answer at every turn: SpecAgree. *)

MaxAgreeDisks == 2

\* Both testers were created for the same disk count; the TestRunner has
\* entered its loop.
AgreeInit ==
    /\ num_disks \in 1..MaxAgreeDisks
    /\ state = reset(num_disks)
    /\ call = [op |-> "__init__", move |-> NoMove]
    /\ ret = [value |-> FALSE, reason |-> ReasonNone]
    /\ pre = reset(num_disks)
    /\ applied = 0
    /\ pc = "start"
    /\ optimal_moves = <<>>
    /\ i = 0
    /\ driver = "main"
    /\ auto_mode = TRUE
    /\ move_count = 0
    /\ test_results = <<>>
    /\ recent_moves = <<>>
    /\ recent_states = <<>>
    /\ recent_reasoning = <<>>
    /\ ai_move_result = NoResponse
    /\ requests = 0
    /\ halt = "none"
    /\ results = NoResults
    /\ mock = NoMock
    /\ moves = <<>>
    /\ seen = NoSeen
    /\ prompt = <<>>
    /\ argv = NoArgv
    /\ twin = [pc |-> "run",
               tester |-> [game |-> reset(num_disks), move_count |-> 0,
                           test_results |-> <<>>, recent_moves |-> <<>>,
                           recent_states |-> <<>>, recent_reasoning |-> <<>>],
               results |-> NoResults]

\* Faulty variant: the budget of the TestRunner compared with <=.
TwinLoopCondition_le ==
    /\ ~is_solved(twin.tester.game, num_disks)
    /\ twin.tester.move_count <= runner_max_moves(num_disks)

\* "while not self.tester.is_solved() and self.tester.move_count <
\* max_moves" of the TestRunner.
TwinLoopCondition ==
    /\ ~is_solved(twin.tester.game, num_disks)
    /\ twin.tester.move_count < runner_max_moves(num_disks)

\* One answer of the move source, given to both loops: main's run takes its
\* turn, and the TestRunner takes its own if its loop is still running.
AgreeTurn(response) ==
    /\ Turn(response, "")
    /\ twin' = IF twin.pc = "run" /\ TwinLoopCondition
               THEN LET r == loop_body(twin.tester, get_ai_move(response),
                                       "runner")
                    IN  [twin EXCEPT !.tester = r.tester,
                                     !.pc = IF r.success THEN "run"
                                            ELSE "break"]
               ELSE twin
    /\ UNCHANGED <<mock, prompt>>

\* The TestRunner after its loop: _finalize_results.
TwinFinish ==
    /\ \/ twin.pc = "break"
       \/ twin.pc = "run" /\ ~TwinLoopCondition
    /\ twin' = [twin EXCEPT
                  !.pc = "done",
                  !.results = generate_test_results(
                      num_disks, is_solved(twin.tester.game, num_disks),
                      twin.tester.move_count, twin.tester.test_results,
                      runner_optimal_moves(num_disks),
                      runner_max_moves(num_disks))]
    /\ UNCHANGED <<num_disks, state, call, ret, pre, applied, pc,
                   optimal_moves, i, driver, auto_mode, move_count,
                   test_results, recent_moves, recent_states,
                   recent_reasoning, ai_move_result, requests, halt, results,
                   mock, moves, seen, prompt, argv>>

AgreeNext ==
    \/ RunStart(TRUE)
    \/ \E response \in Responses : AgreeTurn(response)
    \/ RunFinish
    \/ TwinFinish

SpecAgree == AgreeInit /\ [][AgreeNext]_vars

---------------------------------------------------------------------------
(* api/mock_ai_client.py *)

\* MockMode
MockModes == {"optimal", "invalid-move", "budget-exceeded"}

\* HanoiMove(source_tower=s, destination_tower=d)
Move(s, d) == [source_tower |-> s, destination_tower |-> d]

\* list[k] of Python: the entry at offset k, counted from the end when k is
\* negative; IndexError outside the list.
py_index(list, k) ==
    IF 0 <= k /\ k < Len(list)
    THEN [kind |-> "value", value |-> list[k + 1]]
    ELSE IF k < 0 /\ -k <= Len(list)
    THEN [kind |-> "value", value |-> list[Len(list) + k + 1]]
    ELSE [kind |-> "IndexError", value |-> NoMove]

\* list[:k] of Python, for k >= 0.
py_prefix(list, k) == SubSeq(list, 1, IF k < Len(list) THEN k ELSE Len(list))

\* The while loop of _generate_inefficient_moves.
RECURSIVE extend_inefficient_moves(_, _)
extend_inefficient_moves(inefficient_moves, target_moves) ==
    IF Len(inefficient_moves) >= target_moves
    THEN inefficient_moves
    ELSE LET remaining == target_moves - Len(inefficient_moves)
             basic_cycle == <<Move("A", "B"), Move("B", "C"), Move("C", "A")>>
             alt_cycle_2 == <<Move("A", "B"), Move("B", "A")>>
         IN  IF remaining >= 6
             THEN extend_inefficient_moves(
                      inefficient_moves \o <<Move("A", "B"), Move("B", "C"),
                                 Move("C", "A"), Move("A", "C"),
                                 Move("C", "B"), Move("B", "A")>>,
                      target_moves)
             ELSE IF remaining >= 3
             THEN extend_inefficient_moves(
                      inefficient_moves \o py_prefix(basic_cycle, remaining), target_moves)
             ELSE IF remaining >= 2
             THEN extend_inefficient_moves(
                      inefficient_moves \o py_prefix(alt_cycle_2, remaining), target_moves)
             ELSE extend_inefficient_moves(
                      Append(inefficient_moves, Move("A", "B")), target_moves)

\* MockAIClient._generate_inefficient_moves
generate_inefficient_moves(n) ==
    LET optimal == (2 ^ n) - 1
        budget == optimal * 2
        target_moves == budget + 5
    IN  extend_inefficient_moves(<<>>, target_moves)

\* MockAIClient(mode, num_disks, invalid_at_turn), _prepare_moves included.
MockAIClient(mode, n, invalid_at_turn) ==
    [mode |-> mode,
     invalid_at_turn |-> invalid_at_turn,
     turn_count |-> 0,
     optimal_moves |-> IF mode \in {"optimal", "invalid-move"}
                       THEN solve(n) ELSE <<>>,
     inefficient_moves |-> IF mode = "budget-exceeded"
                           THEN generate_inefficient_moves(n) ELSE <<>>]

\* HanoiMoveResponse(move, reasoning), or the exception a list index raises.
MockResponse(indexed) ==
    IF indexed.kind = "value"
    THEN [kind |-> "move", move |-> indexed.value, reasoning |-> "reasoning"]
    ELSE [kind |-> "failure", move |-> NoMove, reasoning |-> ""]

\* Faulty variant: the sequence is read one entry too far.
get_optimal_move_skips_first(m) ==
    IF m.turn_count < Len(m.optimal_moves)
    THEN MockResponse(py_index(m.optimal_moves, m.turn_count))
    ELSE MockResponse([kind |-> "value", value |-> Move("A", "B")])

\* MockAIClient._get_optimal_move
get_optimal_move(m) ==
    IF m.turn_count <= Len(m.optimal_moves)
    THEN MockResponse(py_index(m.optimal_moves, m.turn_count - 1))
    ELSE MockResponse([kind |-> "value", value |-> Move("A", "B")])

\* MockAIClient._get_invalid_move
get_invalid_move(m, n) ==
    IF m.turn_count < m.invalid_at_turn
    THEN MockResponse(py_index(m.optimal_moves, m.turn_count - 1))
    ELSE IF m.turn_count = m.invalid_at_turn
    THEN IF n >= 3
         THEN MockResponse([kind |-> "value", value |-> Move("A", "C")])
         ELSE MockResponse([kind |-> "value", value |-> Move("B", "C")])
    ELSE LET remaining_index == m.turn_count - 2
         IN  IF remaining_index < Len(m.optimal_moves)
             THEN MockResponse(py_index(m.optimal_moves, remaining_index))
             ELSE MockResponse([kind |-> "value", value |-> Move("A", "B")])

\* MockAIClient._get_budget_exceeding_move
get_budget_exceeding_move(m) ==
    IF m.turn_count <= Len(m.inefficient_moves)
    THEN MockResponse(py_index(m.inefficient_moves, m.turn_count - 1))
    ELSE LET cycle_moves == <<"A", "B", "C">>
             source == cycle_moves[(m.turn_count % 3) + 1]
             dest == cycle_moves[((m.turn_count + 1) % 3) + 1]
         IN  MockResponse([kind |-> "value", value |-> Move(source, dest)])

\* MockAIClient.get_next_move: the client after the call, and its answer.
get_next_move(m, n) ==
    LET m1 == [m EXCEPT !.turn_count = @ + 1]
    IN  [mock |-> m1,
         response |->
             IF m1.mode = "optimal" THEN get_optimal_move(m1)
             ELSE IF m1.mode = "invalid-move" THEN get_invalid_move(m1, n)
             ELSE get_budget_exceeding_move(m1)]

---------------------------------------------------------------------------
(* A run of testing/test_runner.py whose tester holds a MockAIClient:
   SpecMock. *)

\* Largest disk count of a run against the mock client.
MaxMockDisks == 3

\* The invalid_at_turn of MockAIClient when none is given.
DefaultInvalidAtTurn == 3

MockInit ==
    /\ num_disks \in 1..MaxMockDisks
    /\ state = reset(num_disks)
    /\ call = [op |-> "__init__", move |-> NoMove]
    /\ ret = [value |-> FALSE, reason |-> ReasonNone]
    /\ pre = reset(num_disks)
    /\ applied = 0
    /\ pc = "start"
    /\ optimal_moves = <<>>
    /\ i = 0
    /\ driver = "runner"
    /\ auto_mode \in BOOLEAN
    /\ move_count = 0
    /\ test_results = <<>>
    /\ recent_moves = <<>>
    /\ recent_states = <<>>
    /\ recent_reasoning = <<>>
    /\ ai_move_result = NoResponse
    /\ requests = 0
    /\ halt = "none"
    /\ results = NoResults
    /\ \E mode \in MockModes :
       \E invalid_at_turn \in
              IF mode = "invalid-move"
              THEN 1..((2 ^ MaxMockDisks) - 1)
              ELSE {DefaultInvalidAtTurn} :
           mock = MockAIClient(mode, num_disks, invalid_at_turn)
    /\ moves = <<>>
    /\ seen = NoSeen
    /\ prompt = <<>>
    /\ argv = NoArgv
    /\ twin = NoTwin

\* One iteration of the loop, the move coming from the mock client.
MockTurn(user_input) ==
    LET r == get_next_move(mock, num_disks)
    IN  /\ Turn(r.response, user_input)
        /\ mock' = r.mock
        /\ UNCHANGED <<prompt, twin>>

MockNext ==
    \/ RunStart(TRUE)
    \/ \E user_input \in {"", "q"} : MockTurn(user_input)
    \/ RunFinish

SpecMock == MockInit /\ [][MockNext]_vars

---------------------------------------------------------------------------
(* The result classification applied to a tester left in any final condition,
   as test_budget_validation.py applies it: SpecResults. *)

\* How far beyond the budget a hand-set move_count goes.
MaxOverBudget == 2

\* The towers with every disk on tower C.
solved_state(n) == [tower_a |-> <<>>, tower_b |-> <<>>, tower_c |-> range1(n)]

\* A tester of either driver whose towers and move_count were set by hand.
ResultsInit ==
    /\ num_disks \in 1..MaxDisks
    /\ state \in {reset(num_disks), solved_state(num_disks)}
    /\ call = [op |-> "__init__", move |-> NoMove]
    /\ ret = [value |-> FALSE, reason |-> ReasonNone]
    /\ pre = reset(num_disks)
    /\ applied = 0
    /\ pc = "classify"
    /\ optimal_moves = <<>>
    /\ i = 0
    /\ driver \in Drivers
    /\ auto_mode = FALSE
    /\ move_count \in 0..(runner_max_moves(num_disks) + MaxOverBudget)
    /\ test_results = <<>>
    /\ recent_moves = <<>>
    /\ recent_states = <<>>
    /\ recent_reasoning = <<>>
    /\ ai_move_result = NoResponse
    /\ requests = 0
    /\ halt = "none"
    /\ results = NoResults
    /\ mock = NoMock
    /\ moves = <<>>
    /\ seen = NoSeen
    /\ prompt = <<>>
    /\ argv = NoArgv
    /\ twin = NoTwin

\* generate_test_results(tester, optimal_moves, max_moves), or
\* tester._generate_test_results(optimal_moves, max_moves) of main.py.
GenerateResults ==
    /\ pc = "classify"
    /\ results' =
           IF driver = "main"
           THEN main_generate_test_results(
                    num_disks, is_solved(state, num_disks), move_count,
                    test_results, runner_optimal_moves(num_disks),
                    runner_max_moves(num_disks))
           ELSE generate_test_results(
                    num_disks, is_solved(state, num_disks), move_count,
                    test_results, runner_optimal_moves(num_disks),
                    runner_max_moves(num_disks))
    /\ pc' = "classified"
    /\ UNCHANGED <<num_disks, state, call, ret, pre, applied, optimal_moves,
                   i, driver, auto_mode, move_count, test_results,
                   recent_moves, recent_states, recent_reasoning,
                   ai_move_result, requests, halt, mock, moves, seen, prompt,
                   argv, twin>>

ResultsNext == GenerateResults

SpecResults == ResultsInit /\ [][ResultsNext]_vars

---------------------------------------------------------------------------
(* A tester brought to its results by a run or by hand: SpecEval. *)

EvalInit == RunInit \/ ResultsInit

EvalNext == RunNext \/ ResultsNext

SpecEval == EvalInit /\ [][EvalNext]_vars

---------------------------------------------------------------------------
(* Helpers of the properties. *)

\* The disks of a tower, as a set.
Disks(tower) == {tower[k] : k \in 1..Len(tower)}

\* A tower list strictly increasing from index 0 (top) to the bottom.
StrictlyIncreasing(tower) ==
    \A k \in 1..(Len(tower) - 1) : tower[k] < tower[k + 1]

\* The tower that is neither the source nor the destination of a move.
ThirdTower(move) ==
    CHOOSE t \in Towers : t # move.source_tower /\ t # move.destination_tower

---------------------------------------------------------------------------
(* Properties of the puzzle state. *)

\* C1: in every state reachable from a constructed or reset game by any
\* make_move calls, valid or not, towers A, B and C together hold exactly
\* the disks 1..N, each exactly once.
C1_DisksPartition ==
    /\ Len(state.tower_a) + Len(state.tower_b) + Len(state.tower_c) = num_disks
    /\ Disks(state.tower_a) \cup Disks(state.tower_b) \cup Disks(state.tower_c)
         = 1..num_disks

\* C1 witness: after an accepted make_move and after a rejected one, in a
\* state with disks on all three towers.
C1_Witness ==
    /\ call.op = "make_move"
    /\ applied >= 3
    /\ ~ret.value
    /\ state.tower_a # <<>> /\ state.tower_b # <<>> /\ state.tower_c # <<>>

\* C2: every tower list is strictly increasing from the top (index 0) to
\* the bottom: no larger disk lies above a smaller one.
C2_TowersOrdered ==
    /\ StrictlyIncreasing(state.tower_a)
    /\ StrictlyIncreasing(state.tower_b)
    /\ StrictlyIncreasing(state.tower_c)

\* C2 witness: an accepted make_move has put a disk on a non-empty tower.
C2_Witness ==
    /\ call.op = "make_move"
    /\ ret.value
    /\ Len(get_tower(state, call.move.destination_tower)) >= 2
    /\ Len(get_tower(state, call.move.source_tower)) >= 1

\* C3: replaying solve() on a fresh game, the next move always passes
\* is_valid_move, every make_move returned True, and after the last move
\* the game is solved.
C3_SolveReplays ==
    /\ (pc = "loop" /\ i < Len(optimal_moves))
         => is_valid_move(state, optimal_moves[i + 1]).value
    /\ call.op = "make_move" => ret.value
    /\ pc # "broken"
    /\ (pc = "loop" /\ i = Len(optimal_moves)) => is_solved(state, num_disks)
    /\ pc = "wrong" => i < Len(optimal_moves)

\* C3 witness: the whole sequence was replayed on the largest game and the
\* demo closed on a solved puzzle.
C3_Witness ==
    /\ pc = "perfect"
    /\ num_disks = MaxSolverDisks
    /\ i = Len(optimal_moves)
    /\ applied = i

\* C4: solve() returns exactly 2^N - 1 moves, the closed form of
\* get_total_moves() and the test runner's optimal_moves.
C4_SolveLength ==
    /\ Len(optimal_moves) = 2 ^ num_disks - 1
    /\ Len(optimal_moves) = get_total_moves(num_disks)
    /\ Len(optimal_moves) = runner_optimal_moves(num_disks)

\* C4 witness: a solution of 2^3 - 1 = 7 moves, replayed to its end.
C4_Witness ==
    /\ pc = "perfect"
    /\ num_disks = 3
    /\ Len(optimal_moves) = 7
    /\ i = 7

\* C5: no sequence of fewer than 2^N - 1 valid moves from the reset state
\* reaches a solved state.
C5_MinimumMoves ==
    is_solved(state, num_disks) => applied >= 2 ^ num_disks - 1

\* C5 witness: a 3-disk game solved in exactly 7 moves.
C5_Witness ==
    /\ is_solved(state, num_disks)
    /\ num_disks = 3
    /\ applied = 7

---------------------------------------------------------------------------
(* Properties of is_valid_move and make_move. *)

\* C6: is_valid_move returns (True, "") if and only if source and
\* destination differ, the source tower is non-empty, and the destination
\* tower is empty or its top disk is larger than the source's top disk;
\* disk 3 onto a tower whose top is disk 1 is rejected.
C6_ValidIff ==
    call.op = "is_valid_move" =>
        LET source_tower == get_tower(pre, call.move.source_tower)
            dest_tower == get_tower(pre, call.move.destination_tower)
            legal ==
                /\ call.move.source_tower # call.move.destination_tower
                /\ Len(source_tower) > 0
                /\ \/ Len(dest_tower) = 0
                   \/ dest_tower[1] > source_tower[1]
        IN  /\ (ret.value /\ ret.reason = <<>>) <=> legal
            /\ ret.value <=> legal
            /\ ( /\ call.move.source_tower # call.move.destination_tower
                 /\ Len(source_tower) > 0 /\ Len(dest_tower) > 0
                 /\ source_tower[1] = 3 /\ dest_tower[1] = 1 ) => ~ret.value

\* C6 witness: is_valid_move has rejected disk 3 onto a tower topped by
\* disk 1.
C6_Witness ==
    /\ call.op = "is_valid_move"
    /\ call.move.source_tower # call.move.destination_tower
    /\ get_tower(pre, call.move.source_tower) # <<>>
    /\ get_tower(pre, call.move.destination_tower) # <<>>
    /\ Head(get_tower(pre, call.move.source_tower)) = 3
    /\ Head(get_tower(pre, call.move.destination_tower)) = 1
    /\ ~ret.value

\* C7: a move whose source equals its destination is rejected in every
\* state, the tower empty or not, always with the same-tower reason.
C7_SameTowerRejected ==
    ( /\ call.op = "is_valid_move"
      /\ call.move.source_tower = call.move.destination_tower )
    => /\ ~ret.value
       /\ ret.reason = <<"Cannot move from tower ", call.move.source_tower,
                         " to itself">>

\* C7 witness: a same-tower move on an empty tower was rejected.
C7_Witness ==
    /\ call.op = "is_valid_move"
    /\ call.move.source_tower = call.move.destination_tower
    /\ get_tower(pre, call.move.source_tower) = <<>>
    /\ ~ret.value

\* C8: a move between two different towers whose source holds no disk is
\* rejected with the empty-source reason naming the source, whatever the
\* destination holds.
C8_EmptySourceRejected ==
    ( /\ call.op = "is_valid_move"
      /\ call.move.source_tower # call.move.destination_tower
      /\ Len(get_tower(pre, call.move.source_tower)) = 0 )
    => /\ ~ret.value
       /\ ret.reason = <<"Tower ", call.move.source_tower, " is empty">>

\* C8 witness: rejected from an empty source onto a non-empty destination.
C8_Witness ==
    /\ call.op = "is_valid_move"
    /\ call.move.source_tower # call.move.destination_tower
    /\ get_tower(pre, call.move.source_tower) = <<>>
    /\ get_tower(pre, call.move.destination_tower) # <<>>
    /\ ~ret.value

C10_MakeMoveEffect ==
    ( /\ call.op = "make_move"
      /\ call.move \in HanoiMove
      /\ is_valid_move(pre, call.move).value )
    => LET src0 == get_tower(pre, call.move.source_tower)
           dst0 == get_tower(pre, call.move.destination_tower)
           src1 == get_tower(state, call.move.source_tower)
           dst1 == get_tower(state, call.move.destination_tower)
           third == ThirdTower(call.move)
       IN  /\ ret.value
           /\ Len(src1) = Len(src0) - 1
           /\ \A k \in 1..Len(src1) : src1[k] = src0[k + 1]
           /\ Len(dst1) = Len(dst0) + 1
           /\ dst1[1] = src0[1]
           /\ \A k \in 1..Len(dst0) : dst1[k + 1] = dst0[k]
           /\ get_tower(state, third) = get_tower(pre, third)

\* C10 witness: an accepted make_move between two towers that both held
\* other disks.
C10_Witness ==
    /\ call.op = "make_move"
    /\ ret.value
    /\ Len(get_tower(pre, call.move.source_tower)) >= 2
    /\ Len(get_tower(pre, call.move.destination_tower)) >= 1
    /\ get_tower(pre, ThirdTower(call.move)) # <<>>

\* C11: make_move re-validates: for a move is_valid_move rejects (same
\* tower, empty source or size violation) it returns False and leaves all
\* three towers as they were.
C11_MakeMoveRejects ==
    ( /\ call.op = "make_move"
      /\ call.move \in HanoiMove
      /\ \/ call.move.source_tower = call.move.destination_tower
         \/ Len(get_tower(pre, call.move.source_tower)) = 0
         \/ /\ Len(get_tower(pre, call.move.destination_tower)) > 0
            /\ get_tower(pre, call.move.source_tower)[1]
                 > get_tower(pre, call.move.destination_tower)[1] )
    => /\ ~ret.value
       /\ state.tower_a = pre.tower_a
       /\ state.tower_b = pre.tower_b
       /\ state.tower_c = pre.tower_c

\* C11 witness: make_move has refused to put a disk on a smaller one.
C11_Witness ==
    /\ call.op = "make_move"
    /\ ~ret.value
    /\ call.move.source_tower # call.move.destination_tower
    /\ get_tower(pre, call.move.source_tower) # <<>>
    /\ get_tower(pre, call.move.destination_tower) # <<>>
    /\ Head(get_tower(pre, call.move.source_tower))
         > Head(get_tower(pre, call.move.destination_tower))
    /\ state = pre

\* C12: in every reachable state, is_solved() is true if and only if
\* towers A and B are empty and tower C is [1, ..., N] from top to bottom;
\* a freshly constructed or reset game is not solved.
C12_SolvedIff ==
    /\ is_solved(state, num_disks)
         <=> /\ state.tower_a = <<>>
             /\ state.tower_b = <<>>
             /\ state.tower_c = [k \in 1..num_disks |-> k]
    /\ call.op \in {"__init__", "reset"} => ~is_solved(state, num_disks)

\* C12 witness: a 3-disk game is solved.
C12_Witness ==
    /\ is_solved(state, num_disks)
    /\ num_disks = 3
    /\ state.tower_c = <<1, 2, 3>>

---------------------------------------------------------------------------
(* Properties of the evaluation run. *)

\* The turn being taken is one whose proposed move is_valid_move rejects.
RejectedTurn ==
    /\ pc = "run"
    /\ requests' = requests + 1
    /\ ai_move_result'.kind = "move"
    /\ ~is_valid_move(state, ai_move_result'.move).value

\* C13: a proposed move that is invalid is never applied and never
\* counted: the towers, move_count and the history window are unchanged by
\* it, the loop halts without requesting another move, and the result is
\* FAILURE with total_moves equal to the number of moves applied before it.
C13_InvalidNotApplied ==
    /\ [][ RejectedTurn =>
             /\ state' = state
             /\ move_count' = move_count
             /\ applied' = applied
             /\ recent_moves' = recent_moves
             /\ recent_states' = recent_states
             /\ recent_reasoning' = recent_reasoning
             /\ pc' = "break" ]_vars
    /\ [][ halt = "invalid_move" => requests' = requests ]_vars
    /\ [](move_count = applied)
    /\ []( (pc = "done" /\ halt = "invalid_move") =>
             /\ results.status = "FAILURE"
             /\ ~results.success
             /\ results.total_moves = applied )

\* C13 witness: a run of either driver has ended on an invalid move after
\* two applied moves.
C13_Witness ==
    /\ pc = "done"
    /\ halt = "invalid_move"
    /\ applied = 2
    /\ results.total_moves = 2
    /\ results.status = "FAILURE"

\* C14: when a proposed move is invalid, a record for the rejected turn,
\* with a false validity verdict and the validation reason, is appended to
\* the record list before the run halts: one record per accepted or
\* rejected turn.
C14_RejectionRecorded ==
    halt = "invalid_move" =>
        /\ Len(test_results) = applied + 1
        /\ ~test_results[Len(test_results)].is_valid
        /\ "error" \in DOMAIN test_results[Len(test_results)]

\* The turn being taken is one in which the move source fails.
FailedTurn ==
    /\ pc = "run"
    /\ requests' = requests + 1
    /\ ai_move_result'.kind = "None"

\* C15: when the move source fails to produce a move the loop halts at
\* once: towers, move_count, records and history window are unchanged by
\* that turn, no further move is requested, and the run is a FAILURE.
C15_SourceFailureHalts ==
    /\ [][ FailedTurn =>
             /\ state' = state
             /\ move_count' = move_count
             /\ test_results' = test_results
             /\ recent_moves' = recent_moves
             /\ recent_states' = recent_states
             /\ recent_reasoning' = recent_reasoning
             /\ pc' = "break" ]_vars
    /\ [][ halt = "source_failure" => requests' = requests ]_vars
    /\ []( (pc = "done" /\ halt = "source_failure") =>
             /\ results.status = "FAILURE"
             /\ ~results.success
             /\ results.total_moves = applied )

\* C15 witness: a run has ended on a source failure after one applied
\* move, with one more request than applied moves.
C15_Witness ==
    /\ pc = "done"
    /\ halt = "source_failure"
    /\ ai_move_result.kind = "None"
    /\ applied = 1
    /\ requests = 2
    /\ results.status = "FAILURE"

\* C16: the budget is 2 x (2^N - 1) and is never exceeded: move_count stays
\* at or below it, no move is requested once it is reached, and a run that
\* reaches it unsolved ends as FAILURE with total_moves equal to the budget.
C16_BudgetNeverExceeded ==
    /\ [](runner_max_moves(num_disks) = 2 * (2 ^ num_disks - 1))
    /\ [](move_count <= 2 * (2 ^ num_disks - 1))
    /\ [](applied <= 2 * (2 ^ num_disks - 1))
    /\ [][ move_count >= 2 * (2 ^ num_disks - 1) => requests' = requests ]_vars
    /\ []( ( /\ pc = "done"
             /\ move_count = 2 * (2 ^ num_disks - 1)
             /\ ~is_solved(state, num_disks) ) =>
             /\ results.status = "FAILURE"
             /\ ~results.success
             /\ results.total_moves = 2 * (2 ^ num_disks - 1) )

\* C16 witness: a 2-disk run has consumed its 6 moves without solving and
\* was ended by the loop condition.
C16_Witness ==
    /\ pc = "done"
    /\ halt = "budget"
    /\ num_disks = 2
    /\ move_count = 6
    /\ results.status = "FAILURE"
    /\ results.total_moves = 6

\* C17: in auto mode the loop ends after at most 2 x (2^N - 1) iterations:
\* every iteration either leaves the loop or increases move_count by
\* exactly one, and the run reaches its end.
C17_LoopTerminates ==
    /\ [](auto_mode => requests <= 2 * (2 ^ num_disks - 1))
    /\ [][ (auto_mode /\ requests' = requests + 1) =>
             \/ pc' = "break"
             \/ move_count' = move_count + 1 ]_vars
    /\ (auto_mode => <>(pc \in {"done", "error"}))

\* C17 witness: an auto-mode run has ended after as many iterations as the
\* budget allows, each of them a valid move that did not solve the puzzle.
C17_Witness ==
    /\ pc = "done"
    /\ auto_mode
    /\ num_disks = 2
    /\ requests = 6
    /\ move_count = 6
    /\ ~is_solved(state, num_disks)

\* C18: the solved check comes before the budget check: a run whose last
\* move brings move_count to exactly the budget and solves the puzzle ends
\* as SUCCESS, not as a budget failure.
C18_SolvedAtBudget ==
    ( /\ pc = "done"
      /\ is_solved(state, num_disks)
      /\ move_count = 2 * (2 ^ num_disks - 1) )
    => /\ results.status = "SUCCESS"
       /\ results.success
       /\ ~results.exceeded_budget
       /\ halt # "budget"

\* C18 witness: a 2-disk run solved by its 6th move.
C18_Witness ==
    /\ pc = "done"
    /\ num_disks = 2
    /\ is_solved(state, num_disks)
    /\ move_count = 6
    /\ halt = "solved"
    /\ results.status = "SUCCESS"

\* C19: the status is OPTIMAL_SUCCESS iff solved and move_count <= optimal,
\* SUCCESS iff solved and optimal < move_count <= budget, FAILURE otherwise
\* (solved beyond the budget included); success is true exactly for the
\* first two. For both drivers' result generators.
C19_Classification ==
    pc = "classified" =>
        LET solved == Len(state.tower_c) = num_disks
            optimal == 2 ^ num_disks - 1
            budget == 2 * (2 ^ num_disks - 1)
        IN  /\ results.status
                   \in {"OPTIMAL_SUCCESS", "SUCCESS", "FAILURE"}
            /\ results.status = "OPTIMAL_SUCCESS"
                   <=> (solved /\ move_count <= optimal)
            /\ results.status = "SUCCESS"
                   <=> (solved /\ optimal < move_count /\ move_count <= budget)
            /\ results.status = "FAILURE"
                   <=> (~solved \/ move_count > budget)
            /\ results.success
                   <=> results.status \in {"OPTIMAL_SUCCESS", "SUCCESS"}

\* C19 witness: a solved 3-disk tester with 15 moves, one more than the
\* budget of 14, has been classified FAILURE.
C19_Witness ==
    /\ pc = "classified"
    /\ num_disks = 3
    /\ Len(state.tower_c) = 3
    /\ move_count = 15
    /\ results.status = "FAILURE"
    /\ ~results.success

\* C20: whenever the result status is FAILURE, efficiency_percent is 0, for
\* the results of either driver.
C20_NoEfficiencyOnFailure ==
    (pc = "done" /\ results.status = "FAILURE")
        => results.efficiency_percent = 0

\* C21: for a successful result with total_moves > 0, efficiency_percent is
\* optimal_moves / total_moves x 100 rounded to one decimal (7 of 7 gives
\* 100.0, 7 of 10 gives 70.0); it is 100 exactly when total_moves equals
\* optimal_moves, and for a run produced by the loop it lies between 50 and
\* 100. efficiency_percent is held in tenths.
C21_Efficiency ==
    ( /\ pc \in {"done", "classified"}
      /\ results.status \in {"OPTIMAL_SUCCESS", "SUCCESS"}
      /\ results.total_moves > 0 ) =>
        LET e == results.efficiency_percent
            total == results.total_moves
            optimal == 2 ^ num_disks - 1
            diff == e * total - 1000 * optimal
        IN  /\ results.optimal_moves = optimal
            /\ 2 * diff <= total
            /\ -2 * diff <= total
            /\ (e = 1000) <=> (total = optimal)
            /\ (optimal = 7 /\ total = 10) => e = 700
            /\ pc = "done" => (500 <= e /\ e <= 1000)

\* C21 witness: a solved 3-disk tester with 9 moves has efficiency 77.8
\* (7 / 9 x 100 = 77.77...).
C21_Witness ==
    /\ pc = "classified"
    /\ num_disks = 3
    /\ results.status = "SUCCESS"
    /\ results.total_moves = 9
    /\ results.efficiency_percent = 778

\* The last three entries of a list after one more entry is appended.
LastThreeWith(list, entry) ==
    LET ext == list \o <<entry>>
    IN  IF Len(ext) > 3 THEN SubSeq(ext, Len(ext) - 2, Len(ext)) ELSE ext

\* C22: the history window holds the last min(k, 3) accepted moves, in
\* order of application, after k accepted moves: the three lists each hold
\* min(k, 3) entries, an accepted move enters at the end and pushes out the
\* oldest entry of a full window, and a rejected move or a source failure
\* adds nothing. (main.py's tester has no recent_reasoning list.)
C22_HistoryWindow ==
    /\ []( LET size == IF applied < 3 THEN applied ELSE 3
           IN  /\ Len(recent_moves) = size
               /\ Len(recent_states) = size
               /\ Len(recent_reasoning) = IF driver = "main" THEN 0 ELSE size )
    /\ [][ applied' = applied + 1 =>
             /\ recent_moves' = LastThreeWith(recent_moves, ai_move_result'.move)
             /\ recent_states' = LastThreeWith(recent_states, state)
             /\ driver # "main" =>
                    recent_reasoning' =
                        LastThreeWith(recent_reasoning,
                                      ai_move_result'.reasoning) ]_vars
    /\ [][ applied' = applied =>
             /\ recent_moves' = recent_moves
             /\ recent_states' = recent_states
             /\ recent_reasoning' = recent_reasoning ]_vars

\* C22 witness: after four accepted moves a fifth proposal was rejected; the
\* window holds three moves, the first accepted one being gone, and the
\* three states are the ones each of those moves was applied to.
C22_Witness ==
    /\ halt = "invalid_move"
    /\ applied = 4
    /\ Len(recent_moves) = 3
    /\ recent_states[1] # reset(num_disks)
    /\ \A k \in 1..2 :
           make_move(recent_states[k], recent_moves[k]).state
               = recent_states[k + 1]
    /\ make_move(recent_states[3], recent_moves[3]).state = state

\* C26: the result tells a budget halt from the other failures: a run that
\* stopped because move_count reached the budget unsolved has
\* exceeded_budget true, and a run that stopped on an invalid move or a
\* source failure has exceeded_budget false.
C26_HaltReported ==
    pc = "done" =>
        /\ halt = "budget" => results.exceeded_budget
        /\ halt \in {"invalid_move", "source_failure"} =>
               ~results.exceeded_budget

\* C27: a user interrupt in a non-auto run, at the continue prompt or while
\* the move source is being called, ends the run in a terminal state with a
\* result: total_moves is the number of moves applied so far and there is a
\* record for each of them; the run never ends without a result.
C27_CleanCancellation ==
    (~auto_mode /\ halt \in {"user", "interrupt"} /\ pc # "break") =>
        /\ pc = "done"
        /\ results.total_moves = applied
        /\ Len(results.move_details) = applied

---------------------------------------------------------------------------
(* Properties of reset and of the solver's sequence. *)

\* C28: reset() from any reachable state leaves tower A holding 1, 2, ..., N
\* from top to bottom and towers B and C empty; a second reset changes
\* nothing; a newly constructed game is in this same state.
C28_Reset ==
    /\ []( call.op \in {"__init__", "reset"} =>
             /\ Len(state.tower_a) = num_disks
             /\ \A k \in 1..num_disks : state.tower_a[k] = k
             /\ state.tower_b = <<>>
             /\ state.tower_c = <<>> )
    /\ [][ (call.op \in {"__init__", "reset"} /\ call'.op = "reset")
              => state' = state ]_vars

\* C28 witness: a reset has brought a 3-disk game back from a state with
\* disks on all three towers.
C28_Witness ==
    /\ call.op = "reset"
    /\ num_disks = 3
    /\ pre.tower_a # <<>> /\ pre.tower_b # <<>> /\ pre.tower_c # <<>>
    /\ state.tower_a = <<1, 2, 3>>
    /\ state.tower_b = <<>>
    /\ state.tower_c = <<>>

\* The sequence the claim describes: for one disk the move from -> to; for
\* more, the smaller disks from -> via, the move from -> to, the smaller
\* disks via -> to.
RECURSIVE Canonical(_, _, _, _)
Canonical(n, from, to, via) ==
    IF n = 1
    THEN <<[source_tower |-> from, destination_tower |-> to]>>
    ELSE Canonical(n - 1, from, via, to)
         \o <<[source_tower |-> from, destination_tower |-> to]>>
         \o Canonical(n - 1, via, to, from)

\* C29: solve() is the canonical recursion: A->C for one disk; for n > 1
\* the (n-1)-disk solution from A to B using C, then A->C, then the
\* (n-1)-disk solution from B to C using A. The move at index 2^(n-1) - 1
\* (counted from 0) is A->C and is the only move of the largest disk.
C29_CanonicalRecursion ==
    LET half == 2 ^ (num_disks - 1)
        AtoC == [source_tower |-> "A", destination_tower |-> "C"]
    IN  /\ num_disks = 1 => optimal_moves = <<AtoC>>
        /\ num_disks > 1 =>
               optimal_moves = Canonical(num_disks - 1, "A", "B", "C")
                               \o <<AtoC>>
                               \o Canonical(num_disks - 1, "B", "C", "A")
        /\ optimal_moves[half] = AtoC
        /\ (call.op = "make_move" /\ ret.value) =>
               ( Head(get_tower(pre, call.move.source_tower)) = num_disks
                 <=> i = half )

\* C29 witness: the replay of the 4-disk solution has just applied its 8th
\* move (index 7), A->C, which moved disk 4.
C29_Witness ==
    /\ num_disks = 4
    /\ call.op = "make_move"
    /\ ret.value
    /\ i = 8
    /\ call.move = [source_tower |-> "A", destination_tower |-> "C"]
    /\ pre.tower_a = <<4>>
    /\ state.tower_c = <<4>>

\* C30: solve() returns the same 2^N - 1 moves whenever it is called: again
\* after an earlier solve(), or after get_next_optimal_move has filled the
\* solver's moves; the sequence is never accumulated or duplicated, and the
\* towers of no game are read or changed.
C30_SolveDeterministic ==
    /\ []( call.op = "solve" =>
             /\ Len(optimal_moves) = 2 ^ num_disks - 1
             /\ optimal_moves = Canonical(num_disks, "A", "C", "B") )
    /\ []( Len(moves) \in {0, 2 ^ num_disks - 1} )
    /\ [][ (optimal_moves # <<>> /\ call'.op = "solve")
              => optimal_moves' = optimal_moves ]_vars
    /\ [][ state' = state ]_vars

\* C30 witness: solve() has returned the 7 moves of the 3-disk solution
\* for the second time, get_next_optimal_move having filled the moves
\* before the first.
C30_Witness ==
    /\ call.op = "solve"
    /\ num_disks = 3
    /\ applied = 2
    /\ i = 6
    /\ Len(optimal_moves) = 7
    /\ moves = optimal_moves

\* C31: is_optimal_move(move, i) is true if and only if 0 <= i < 2^N - 1
\* and the move's (source, destination) pair is the pair of the canonical
\* sequence at index i; out of range it returns False without raising,
\* while get_next_optimal_move raises IndexError exactly there.
C31_IsOptimalMove ==
    /\ call.op = "is_optimal_move" =>
           ( ret.value <=>
               /\ 0 <= i
               /\ i < 2 ^ num_disks - 1
               /\ call.move = Canonical(num_disks, "A", "C", "B")[i + 1] )
    /\ call.op = "get_next_optimal_move" =>
           /\ ret.value <=> (0 <= i /\ i < 2 ^ num_disks - 1)
           /\ ret.value => call.move = Canonical(num_disks, "A", "C", "B")[i + 1]

\* C31 witness: for 3 disks, is_optimal_move(A->B, 0) has returned False:
\* A->B is valid on the initial towers, the optimal first move is A->C.
C31_Witness ==
    /\ call.op = "is_optimal_move"
    /\ num_disks = 3
    /\ i = 0
    /\ call.move = [source_tower |-> "A", destination_tower |-> "B"]
    /\ is_valid_move(reset(3), call.move).value
    /\ ~ret.value

---------------------------------------------------------------------------
(* Properties of a run against the mock client. *)

\* C23: a run whose move source is the mock in OPTIMAL_SOLVER mode ends
\* with status OPTIMAL_SUCCESS, total_moves = 2^N - 1 and efficiency 100;
\* the puzzle is not solved before the last optimal move, and the mock's
\* fallback move (turn_count beyond the optimal sequence) is never
\* requested. A run the user has interrupted is left aside.
C23_OptimalMock ==
    mock.mode = "optimal" =>
        /\ mock.turn_count = requests
        /\ mock.turn_count <= 2 ^ num_disks - 1
        /\ Len(mock.optimal_moves) = 2 ^ num_disks - 1
        /\ move_count < 2 ^ num_disks - 1 => ~is_solved(state, num_disks)
        /\ halt \notin {"invalid_move", "source_failure", "execute_failure",
                        "budget"}
        /\ (pc = "done" /\ (halt # "user" \/ is_solved(state, num_disks))) =>
               /\ results.status = "OPTIMAL_SUCCESS"
               /\ results.success
               /\ results.total_moves = 2 ^ num_disks - 1
               /\ results.efficiency_percent = 1000

\* C23 witness: the 3-disk run against the optimal mock has ended, solved
\* by its 7th move.
C23_Witness ==
    /\ mock.mode = "optimal"
    /\ pc = "done"
    /\ halt = "solved"
    /\ num_disks = 3
    /\ mock.turn_count = 7
    /\ results.status = "OPTIMAL_SUCCESS"
    /\ results.total_moves = 7

\* C24: for every N and every invalid_at_turn t in 1..2^N - 1, the run
\* against the mock in INVALID_MOVE mode is halted by the move of turn t,
\* which is_valid_move rejects: status FAILURE and total_moves = t - 1.
\* A run the user has interrupted is left aside.
C24_InvalidMock ==
    ( /\ mock.mode = "invalid-move"
      /\ mock.invalid_at_turn <= 2 ^ num_disks - 1
      /\ pc = "done"
      /\ halt # "user" ) =>
        /\ halt = "invalid_move"
        /\ results.status = "FAILURE"
        /\ results.total_moves = mock.invalid_at_turn - 1

\* C25: the run against the mock in BUDGET_EXCEEDED mode never solves the
\* puzzle, every move of the mock is accepted, and the run ends as FAILURE
\* with total_moves equal to the budget 2 x (2^N - 1). A run the user has
\* interrupted is left aside.
C25_BudgetMock ==
    mock.mode = "budget-exceeded" =>
        /\ ~is_solved(state, num_disks)
        /\ halt \notin {"invalid_move", "source_failure", "execute_failure"}
        /\ (pc = "done" /\ halt # "user") =>
               /\ results.status = "FAILURE"
               /\ results.total_moves = 2 * (2 ^ num_disks - 1)

---------------------------------------------------------------------------
(* Properties of the description methods. *)

\* The step is a call of the description method m that returns the text
\* kept in texts[m] once more and leaves the towers as they are.
RepeatsText(m, texts, texts_after) ==
    call'.op = m =>
        /\ state' = state
        /\ texts[m] # <<>> => texts_after[m] = texts[m]

\* C32 as stated: get_state_description() and get_state_for_ai() leave the
\* towers unchanged and return the text of their previous call whenever no
\* successful make_move happened between the two calls.
C32_SinceLastMove ==
    [][\A m \in DescriptionMethods :
           RepeatsText(m, seen.since_move, seen'.since_move)]_vars

\* C32: get_state_description() and get_state_for_ai() leave the towers
\* unchanged and return the text of their previous call whenever neither a
\* successful make_move nor a reset() happened between the two calls, also
\* when rejected make_move calls and is_valid_move calls happened between.
C32_ReadOnlyProjection ==
    [][\A m \in DescriptionMethods :
           RepeatsText(m, seen.since_reset, seen'.since_reset)]_vars

\* get_state_description() has returned "Tower A: [2]\nTower B: [1]\n
\* Tower C: []" a second time, a rejected make_move and an is_valid_move
\* after the first.
C32_Witness ==
    /\ call.op = "get_state_description"
    /\ seen.repeated
    /\ seen.between = {"is_valid_move", "make_move"}
    /\ seen.since_reset["get_state_for_ai"] = <<>>
    /\ seen.since_reset["get_state_description"]
         = <<"Tower A: ", "[", "2", "]", "\nTower B: ", "[", "1", "]",
             "\nTower C: ", "[", "]">>
    /\ state = [tower_a |-> <<2>>, tower_b |-> <<1>>, tower_c |-> <<>>]

---------------------------------------------------------------------------
(* Properties of the prompt. *)

\* The positions of the piece marker in a text, in order.
Positions(text, marker) ==
    SelectSeq([k \in 1..Len(text) |-> k], LAMBDA k : text[k] = marker)

\* The pieces of a text that follow the occurrences of marker, in order.
After(text, marker) ==
    LET at == Positions(text, marker)
    IN  [j \in 1..Len(at) |->
            IF at[j] < Len(text) THEN text[at[j] + 1] ELSE ""]

\* What stands between the j-th occurrence of marker and the j-th
\* occurrence of stop, for each j: the text of a field whose label is
\* marker and that the piece stop follows.
Fields(text, marker, stop) ==
    LET at == Positions(text, marker)
        stops == Positions(text, stop)
    IN  [j \in 1..Len(at) |->
            IF j <= Len(stops) /\ at[j] < stops[j]
            THEN SubSeq(text, at[j] + 1, stops[j] - 1)
            ELSE <<>>]

\* The history entries a prompt shows: the number of its "--- Move k ---"
\* line, the towers before the move and the move, as the text spells them.
Labels(text) == After(text, "\n\n--- Move ")

ShownEntries(text) ==
    LET labels == Labels(text)
        states_before == Fields(text, "\nState before move:", "\nMove made: ")
        sources == After(text, "Move disk from tower ")
        destinations == After(text, " to tower ")
    IN  [k \in 1..Len(labels) |->
            [label |-> labels[k],
             state_before |-> states_before[k],
             source_tower |-> sources[k],
             destination_tower |-> destinations[k]]]

\* The entry a prompt has to show for the move at position j of the lists
\* of tester t when it was the move of turn move_num.
ExpectedEntry(t, j, move_num) ==
    [label |-> ToString(move_num),
     state_before |->
         <<"\n  Tower A: ">> \o py_str_or_empty(t.recent_states[j].tower_a)
         \o <<"\n  Tower B: ">> \o py_str_or_empty(t.recent_states[j].tower_b)
         \o <<"\n  Tower C: ">> \o py_str_or_empty(t.recent_states[j].tower_c),
     source_tower |-> t.recent_moves[j].source_tower,
     destination_tower |-> t.recent_moves[j].destination_tower]

\* C33: whenever _create_ai_prompt builds a prompt, in a run or on a
\* tester set by hand, the prompt shows min(3, len(recent_moves)) history
\* entries, they are the last entries of recent_moves and recent_states in
\* order, and their labels are consecutive and end at move_count; in a run
\* the last entry is the move applied in the turn before, and its label is
\* the turn of the record of that move.
C33_PromptHistory ==
    [][ (requests' = requests + 1 \/ pc' = "prompted") =>
          LET t == Tester
              len == Len(t.recent_moves)
              shown == IF len <= 3 THEN len ELSE 3
              entries == ShownEntries(prompt')
          IN  /\ shown <= 3
              /\ entries =
                    [k \in 1..shown |->
                        ExpectedEntry(t, len - shown + k,
                                      t.move_count - shown + k)]
              /\ (pc = "run" /\ move_count >= 1) =>
                    /\ entries[shown].label = ToString(move_count)
                    /\ test_results[Len(test_results)].turn = move_count
                    /\ test_results[Len(test_results)].is_valid
                    /\ entries[shown].source_tower
                         = ai_move_result.move.source_tower
                    /\ entries[shown].destination_tower
                         = ai_move_result.move.destination_tower
      ]_vars

\* main's tester with move_count = 5 and the five moves and states of the
\* script in its lists: the prompt shows Move 3, Move 4, Move 5, which are
\* C->B, A->C and B->A.
C33_Witness ==
    /\ pc = "prompted"
    /\ driver = "main"
    /\ move_count = 5
    /\ Len(recent_moves) = 5
    /\ Labels(prompt) = <<"3", "4", "5">>
    /\ After(prompt, "Move disk from tower ") = <<"C", "A", "B">>
    /\ After(prompt, " to tower ") = <<"B", "C", "A">>

---------------------------------------------------------------------------
(* Properties of main(). *)

\* The command line named a disk count that int converts to a value
\* outside 1..10.
OutOfRangeArgument ==
    /\ argv.given
    /\ py_int(argv.num_disks).kind = "value"
    /\ ~(1 <= py_int(argv.num_disks).value
         /\ py_int(argv.num_disks).value <= 10)

\* C34: once main() has looked at a command line whose disk count is
\* outside 1..10 (0, negative or above 10), the process has exited with
\* status 1 and no tester and no game exist; and whenever a tester exists
\* its disk count is in 1..10.
C34_OutOfRangeRejected ==
    /\ (OutOfRangeArgument /\ pc # "main") =>
           (pc = "exit_1" /\ state = NoGame /\ driver = "none")
    /\ driver # "none" => (1 <= num_disks /\ num_disks <= 10)

---------------------------------------------------------------------------
(* Properties of the requests of a run. *)

\* C35: every iteration of the loop asks the move source exactly once, a
\* request is made only in an iteration entered with the loop condition
\* true and no halt behind it, and none after a halt (an invalid move, a
\* failure of the source, the puzzle solved, the budget reached, the user's
\* stop); so the requests number at most move_count + 1, at most the budget
\* of 2 x (2^N - 1), and at most total_moves + 1 of the results.
C35_NoRetry ==
    /\ [][ requests' \in {requests, requests + 1} ]_vars
    /\ [][ (pc = "run" /\ pc' \in {"run", "break"}) =>
             requests' = requests + 1 ]_vars
    /\ [][ requests' = requests + 1 =>
             (pc = "run" /\ halt = "none" /\ LoopCondition) ]_vars
    /\ [][ (halt # "none" \/ pc # "run" \/ is_solved(state, num_disks)
              \/ move_count >= runner_max_moves(num_disks)) =>
             requests' = requests ]_vars
    /\ [](requests <= move_count + 1)
    /\ [](requests <= runner_max_moves(num_disks))
    /\ [](pc = "done" => requests <= results.total_moves + 1)

\* A run of 2 disks halted by the invalid third answer of the source: three
\* requests, two moves applied, the results report total_moves 2.
C35_Witness ==
    /\ pc = "done"
    /\ halt = "invalid_move"
    /\ num_disks = 2
    /\ requests = 3
    /\ move_count = 2
    /\ results.total_moves = 2

---------------------------------------------------------------------------
(* Properties of the snapshots of the history window. *)

\* C36: in a run, the entry appended to recent_states with an applied move
\* is the towers as they were just before the move; the entries already in
\* the window stay as they are when later moves are applied, until they
\* leave the window; so at any time applying recent_moves[k] to
\* recent_states[k] succeeds and yields recent_states[k + 1], and for the
\* last entry yields the towers of now, never the snapshot itself.
C36_Snapshots ==
    /\ [][ applied' = applied + 1 =>
             /\ recent_states' # <<>>
             /\ recent_states'[Len(recent_states')] = state
             /\ recent_moves'[Len(recent_moves')] = ai_move_result'.move
             /\ LET kept == Len(recent_states') - 1
                IN  SubSeq(recent_states', 1, kept)
                      = SubSeq(recent_states, Len(recent_states) - kept + 1,
                               Len(recent_states)) ]_vars
    /\ [][ applied' = applied => recent_states' = recent_states ]_vars
    /\ []( \A k \in 1..Len(recent_states) :
              LET r == make_move(recent_states[k], recent_moves[k])
              IN  /\ r.value
                  /\ r.state # recent_states[k]
                  /\ r.state = IF k < Len(recent_states)
                               THEN recent_states[k + 1]
                               ELSE state )

\* Five moves have solved the 2-disk puzzle: the window holds the towers
\* before the third, fourth and fifth move, none of them the solved towers
\* of now, and the fifth move leads from the last snapshot to them.
C36_Witness ==
    /\ num_disks = 2
    /\ applied = 5
    /\ is_solved(state, num_disks)
    /\ Len(recent_states) = 3
    /\ \A k \in 1..3 : recent_states[k] # state
    /\ make_move(recent_states[3], recent_moves[3]).state = state
    /\ recent_states[3] = [tower_a |-> <<>>, tower_b |-> <<1>>,
                           tower_c |-> <<2>>]

---------------------------------------------------------------------------
(* Properties of the records of testing.HanoiAITester. *)

\* C37: in a run of testing.HanoiAITester, at any time test_results holds
\* move_count records, their turns are 1, 2, ..., move_count in order and
\* each has is_valid true; a step of the run leaves the records it finds
\* as they are and appends at most one; and whatever move is proposed in a
\* state of the run, make_move applies it if is_valid_move accepts it, so
\* validate_and_execute_move never answers "Failed to execute move".
C37_RunnerRecords ==
    /\ []( driver = "runner" =>
              /\ Len(test_results) = move_count
              /\ \A k \in 1..Len(test_results) :
                    /\ test_results[k].turn = k
                    /\ test_results[k].is_valid )
    /\ [][ driver = "runner" =>
             /\ Len(test_results') <= Len(test_results) + 1
             /\ SubSeq(test_results', 1, Len(test_results)) = test_results
      ]_vars
    /\ []( (driver = "runner" /\ pc \in {"run", "break", "done"}) =>
              /\ halt # "execute_failure"
              /\ \A move \in HanoiMove :
                    /\ is_valid_move(state, move).value
                         => make_move(state, move).value
                    /\ validate_and_execute_move(Tester, move, "reasoning")
                         .message # <<"Failed to execute move">> )

\* A run of the test runner has ended on an invalid third proposal: two
\* moves were applied, and the records are those of turns 1 and 2.
C37_Witness ==
    /\ driver = "runner"
    /\ pc = "done"
    /\ halt = "invalid_move"
    /\ requests = 3
    /\ move_count = 2
    /\ test_results = <<TestRecord(1, TRUE), TestRecord(2, TRUE)>>

---------------------------------------------------------------------------
(* Properties of the two drivers side by side. *)

\* C38: given the same answer of the move source at every turn in auto
\* mode, the run of main.py and the run of the TestRunner hold the same
\* towers and the same move_count at any time, leave their loops after the
\* same turn, and their results agree on total_moves, status and success.
C38_DriversAgree ==
    /\ twin.tester.game = state
    /\ twin.tester.move_count = move_count
    /\ pc = "run" => twin.pc \in {"run", "done"}
    /\ pc = "break" => twin.pc \in {"break", "done"}
    /\ twin.pc = "break" => pc \in {"break", "done"}
    /\ (twin.pc = "run" /\ pc \in {"run", "done"}) =>
           (TwinLoopCondition <=> LoopCondition)
    /\ (pc = "done" /\ twin.pc = "done") =>
           /\ results.total_moves = twin.results.total_moves
           /\ results.status = twin.results.status
           /\ results.success = twin.results.success

\* Both runs have ended on the invalid third answer of the source, after
\* the same two moves: both results are a FAILURE with total_moves 2.
C38_Witness ==
    /\ pc = "done"
    /\ twin.pc = "done"
    /\ halt = "invalid_move"
    /\ requests = 3
    /\ results.status = "FAILURE"
    /\ twin.results.status = "FAILURE"
    /\ twin.results.total_moves = 2
    /\ twin.tester.game = state

====
